---- MODULE Spec2Model ----
(***************************************************************************)
(* Model of the LSP go-to-definition benchmark (lsp/lsp_benchmark.py):     *)
(* the definition-result normalizer, the location validator, the LSP       *)
(* client (caller thread, stdout reader thread, server), the run loop of   *)
(* main with its aggregation and summary, and the case sampler.            *)
(***************************************************************************)
EXTENDS Integers, Sequences, FiniteSets, TLC

VARIABLES
    \* _parse_definition_result under test
    raw_result, parse_out, parse_pc,
    \* _looks_like_valid_location under test
    v_loc, v_root, v_out, v_pc,
    \* one LspClient session (run_one_server): the worker thread that calls it
    c_pc, c_op, c_req_id, c_exc, req_out, def_req, def_result, worker_out,
    use_settings,
    \* LspClient fields
    proc, shutdown_flag, next_id, pending, waiters, rx_queue,
    \* the stdout reader thread (_rx_loop)
    rx_pc, rx_msg, rx_key,
    \* the server process and its pipes
    srv, stdout_pipe, emitted, sent,
    \* history: what request() handed back to its caller
    returned,
    \* history: how many further stop() calls were made on the client
    extra_stops,
    \* how stop() ended the subprocess: by terminate() or by kill()
    proc_end,
    \* main(): configuration, the case sampler's rng, the run loop
    args_runs, args_seed, json_out, entropy, tree, rng, m_pc, run_idx, case,
    case_payload, futures, handled, agg, report, written,
    \* two invocations of main() side by side: seed, tree, and per invocation
    \* the entropy, the rng, the loop position, the cases picked, the servers
    r_seed, r_tree, r_runs, r_entropy, r_rng, r_idx, r_cases, r_servers,
    \* the daily runner: parse_args
    a_argv, a_out, a_pc,
    \* the daily runner: run_benchmark_for_package
    d_pc, d_type_checkers, d_installed, d_runs, d_seed, d_idx, d_available,
    d_results, d_runner, d_args, d_spawned, d_ran,
    \* main(): the arguments that select servers and settings, and the startup
    cfg_servers_arg, cfg_cmd, cfg_settings_json, cfg_pc, cfg_requested,
    cfg_servers, cfg_picked, cfg_spawned, cfg_exit,
    \* pick_random_identifier_case: the file, the rng, the outcome
    p_file, p_rng, p_out, p_pc,
    \* pick_random_case: the tree under root, the rng, the outcome
    k_tree, k_rng, k_out, k_pc,
    \* the latency summary of one server: the samples, the summary
    l_lats, l_out, l_pc,
    \* the bytes of the server's stdout: not yet written, in the pipe, closed;
    \* the reader's position, its headers, the messages it parsed
    fr_unwritten, fr_pipe, fr_closed, fr_pc, fr_headers, fr_msgs, fr_stream

parseVars == <<raw_result, parse_out, parse_pc>>
validVars == <<v_loc, v_root, v_out, v_pc>>
callerVars ==
    <<c_pc, c_op, c_req_id, c_exc, req_out, def_req, def_result, worker_out,
      use_settings>>
fieldVars == <<proc, shutdown_flag, next_id, pending, waiters, rx_queue>>
rxVars == <<rx_pc, rx_msg, rx_key>>
serverVars == <<srv, stdout_pipe, emitted, sent>>
histVars == <<returned, extra_stops, proc_end>>
clientVars == <<callerVars, fieldVars, rxVars, serverVars, histVars>>
configVars == <<args_runs, args_seed, json_out, entropy, tree>>
mainVars ==
    <<configVars, rng, m_pc, run_idx, case, case_payload, futures, handled,
      agg, report, written>>
reproVars ==
    <<r_seed, r_tree, r_runs, r_entropy, r_rng, r_idx, r_cases, r_servers>>
argsVars == <<a_argv, a_out, a_pc>>
runnerVars ==
    <<d_pc, d_type_checkers, d_installed, d_runs, d_seed, d_idx, d_available,
      d_results, d_runner, d_args, d_spawned, d_ran>>
dailyVars == <<argsVars, runnerVars>>
cfgArgs == <<cfg_servers_arg, cfg_cmd, cfg_settings_json>>
cfgVars ==
    <<cfgArgs, cfg_pc, cfg_requested, cfg_servers, cfg_picked, cfg_spawned,
      cfg_exit>>
pickVars == <<p_file, p_rng, p_out, p_pc>>
caseVars == <<k_tree, k_rng, k_out, k_pc>>
latVars == <<l_lats, l_out, l_pc>>
frameVars == <<fr_unwritten, fr_pipe, fr_closed, fr_pc, fr_headers, fr_msgs, fr_stream>>
vars == <<parseVars, validVars, clientVars, mainVars, reproVars, dailyVars, cfgVars, pickVars, caseVars, latVars, frameVars>>

(***************************************************************************)
(* JSON values as json.loads produces them, tagged by Python type.         *)
(* Strings are sequences of one-character strings.                         *)
(***************************************************************************)
JNull == [t |-> "null"]
JInt(n) == [t |-> "int", n |-> n]
JBool(b) == [t |-> "bool", b |-> b]
JFloat(num, den) == [t |-> "float", num |-> num, den |-> den]
JStr(s) == [t |-> "str", s |-> s]
JDict(d) == [t |-> "dict", d |-> d]
JList(l) == [t |-> "list", l |-> l]

\* The outcome of a Python expression: a value, or a raised exception.
Val(v) == [exc |-> "none", v |-> v]
Raise(e) == [exc |-> e]

DigitChars == <<"0", "1", "2", "3", "4", "5", "6", "7", "8", "9">>
IsDigit(c) == \E i \in 1..10 : DigitChars[i] = c
DigitVal(c) == (CHOOSE i \in 1..10 : DigitChars[i] = c) - 1

RECURSIVE DigitsValue(_)
DigitsValue(s) ==
    IF s = <<>> THEN 0
    ELSE 10 * DigitsValue(SubSeq(s, 1, Len(s) - 1)) + DigitVal(s[Len(s)])

AllDigits(s) == Len(s) > 0 /\ \A i \in 1..Len(s) : IsDigit(s[i])

RECURSIVE DigitsOf(_)
DigitsOf(n) ==
    IF n < 10 THEN <<DigitChars[n + 1]>>
    ELSE DigitsOf(n \div 10) \o <<DigitChars[(n % 10) + 1]>>

\* Python int(x) on a JSON value.
PyInt(x) ==
    CASE x.t = "int" -> Val(x.n)
      [] x.t = "bool" -> Val(IF x.b THEN 1 ELSE 0)
      [] x.t = "float" ->
            Val(IF x.num >= 0 THEN x.num \div x.den ELSE -((-x.num) \div x.den))
      [] x.t = "str" ->
            IF AllDigits(x.s) THEN Val(DigitsValue(x.s))
            ELSE IF Len(x.s) > 1 /\ x.s[1] = "-" /\ AllDigits(Tail(x.s))
                 THEN Val(-DigitsValue(Tail(x.s)))
            ELSE IF Len(x.s) > 1 /\ x.s[1] = "+" /\ AllDigits(Tail(x.s))
                 THEN Val(DigitsValue(Tail(x.s)))
            ELSE Raise("ValueError")
      [] OTHER -> Raise("TypeError")

\* Python str(x) on a JSON scalar.
PyStr(x) ==
    CASE x.t = "str" -> x.s
      [] x.t = "int" -> IF x.n < 0 THEN <<"-">> \o DigitsOf(-x.n) ELSE DigitsOf(x.n)
      [] x.t = "null" -> <<"N", "o", "n", "e">>
      [] x.t = "bool" -> IF x.b THEN <<"T", "r", "u", "e">>
                         ELSE <<"F", "a", "l", "s", "e">>

\* Python x[k] with a string key k.
Subscript(x, k) ==
    IF x.t = "dict"
    THEN IF k \in DOMAIN x.d THEN Val(x.d[k]) ELSE Raise("KeyError")
    ELSE Raise("TypeError")

\* int(r[a][b])
IntAt(r, a, b) ==
    LET ra == Subscript(r, a) IN
    IF ra.exc # "none" THEN ra
    ELSE LET rab == Subscript(ra.v, b) IN
         IF rab.exc # "none" THEN rab ELSE PyInt(rab.v)

Position(line, character) == [line |-> line, character |-> character]
Range(start, end) == [start |-> start, end |-> end]
Location(uri, range) == [uri |-> uri, range |-> range]

\* The body of the try block of loc_from: Location(uri=str(uri), range=...)
BuildLocation(uri, r) ==
    LET sl == IntAt(r, "start", "line")
        sc == IntAt(r, "start", "character")
        el == IntAt(r, "end", "line")
        ec == IntAt(r, "end", "character")
    IN  IF sl.exc # "none" THEN sl
        ELSE IF sc.exc # "none" THEN sc
        ELSE IF el.exc # "none" THEN el
        ELSE IF ec.exc # "none" THEN ec
        ELSE Val(Location(PyStr(uri),
                          Range(Position(sl.v, sc.v), Position(el.v, ec.v))))

\* "except Exception" of loc_from
LocFromCatches(e) == e \in {"KeyError", "TypeError", "ValueError"}

None == [some |-> FALSE]
Some(v) == [some |-> TRUE, v |-> v]

\* The pair of keys loc_from reads the location from, or <<>> when there is none.
LocFromKeysIgnoringLinks(obj) ==
    IF "uri" \in DOMAIN obj.d /\ "range" \in DOMAIN obj.d
    THEN <<"uri", "range">> ELSE <<>>

LocFromKeys(obj) ==
    IF "targetUri" \in DOMAIN obj.d /\ "targetRange" \in DOMAIN obj.d
    THEN <<"targetUri", "targetRange">>
    ELSE IF "uri" \in DOMAIN obj.d /\ "range" \in DOMAIN obj.d
    THEN <<"uri", "range">>
    ELSE <<>>

\* loc_from: Val(Some(loc)), Val(None), or an exception that escaped.
loc_from(obj) ==
    IF obj.t # "dict" THEN Val(None)
    ELSE LET ks == LocFromKeys(obj) IN
         IF ks = <<>> THEN Val(None)
         ELSE LET b == BuildLocation(obj.d[ks[1]], obj.d[ks[2]]) IN
              IF b.exc = "none" THEN Val(Some(b.v))
              ELSE IF LocFromCatches(b.exc) THEN Val(None)
              ELSE b

RECURSIVE ParseItems(_)
ParseItems(items) ==
    IF items = <<>> THEN Val(<<>>)
    ELSE LET h == loc_from(Head(items)) IN
         IF h.exc # "none" THEN h
         ELSE LET rest == ParseItems(Tail(items)) IN
              IF rest.exc # "none" THEN rest
              ELSE Val((IF h.v.some THEN <<h.v.v>> ELSE <<>>) \o rest.v)

_parse_definition_result(result) ==
    IF result.t = "null" THEN Val(<<>>)
    ELSE IF result.t = "list" THEN ParseItems(result.l)
    ELSE ParseItems(<<result>>)

(***************************************************************************)
(* Raw results the normalizer is run on.                                   *)
(***************************************************************************)
MaxItems == 2

CoordVals ==
    {JInt(2), JInt(-1), JStr(<<"7">>), JStr(<<"x">>), JNull, JBool(TRUE),
     JFloat(3, 2)}
GoodPos == JDict([line |-> JInt(1), character |-> JInt(0)])
PosVals ==
    {JDict([line |-> c, character |-> JInt(0)]) : c \in CoordVals}
    \cup {GoodPos, JDict([line |-> JInt(1)]), JInt(5)}
GoodRange == JDict([start |-> GoodPos, end |-> GoodPos])
RangeVals ==
    {JDict([start |-> p, end |-> GoodPos]) : p \in PosVals}
    \cup {JDict([start |-> GoodPos, end |-> JDict([character |-> JInt(0)])]),
          JDict([start |-> GoodPos]), JNull, JList(<<GoodPos, GoodPos>>)}
UriA == JStr(<<"a">>)
UriB == JStr(<<"b">>)
ItemVals ==
    {JDict([uri |-> UriA, range |-> r]) : r \in RangeVals}
    \cup {JDict([targetUri |-> UriB, targetRange |-> r]) : r \in RangeVals}
    \cup {JDict([uri |-> JInt(42), range |-> GoodRange]),
          JDict([uri |-> JNull, range |-> GoodRange]),
          JDict([uri |-> UriA]),
          JDict([targetUri |-> UriB, range |-> GoodRange]),
          JDict([targetUri |-> UriB, targetRange |-> JNull,
                 uri |-> UriA, range |-> GoodRange]),
          JDict([targetUri |-> UriB, targetRange |-> GoodRange,
                 uri |-> UriA, range |-> JNull]),
          JDict([invalid |-> JStr(<<"o">>)]),
          JNull, JInt(3), JStr(<<"a">>)}

ItemSeqs(n) == UNION {[1..k -> ItemVals] : k \in 0..n}
RawResults == ItemVals \cup {JList(l) : l \in ItemSeqs(MaxItems)}

ParseInit ==
    /\ raw_result \in RawResults
    /\ parse_out = Val(<<>>)
    /\ parse_pc = "call"

ParseIdle ==
    /\ raw_result = JNull
    /\ parse_out = Val(<<>>)
    /\ parse_pc = "off"

ParseCall ==
    /\ parse_pc = "call"
    /\ parse_out' = _parse_definition_result(raw_result)
    /\ parse_pc' = "done"
    /\ UNCHANGED <<raw_result, validVars, clientVars, mainVars, reproVars, dailyVars, cfgVars, pickVars, caseVars, latVars, frameVars>>

(***************************************************************************)
(* _looks_like_valid_location.  A URI or a path is a sequence of symbols;  *)
(* "file:" stands for these five characters, "NUL" for the character 0.    *)
(***************************************************************************)
StartsWith(s, p) == Len(s) >= Len(p) /\ SubSeq(s, 1, Len(p)) = p
Drop(s, n) == SubSeq(s, n + 1, Len(s))
Replace(s, a, b) == [i \in 1..Len(s) |-> IF s[i] = a THEN b ELSE s[i]]

_uri_to_path(uri) ==
    IF StartsWith(uri, <<"file:", "/", "/", "/">>)
    THEN Replace(Drop(uri, 4), "/", "\\")
    ELSE IF StartsWith(uri, <<"file:", "/", "/">>) THEN Drop(uri, 3)
    ELSE uri

\* The working directory relative paths resolve against.
Cwd == <<"/", "w">>

\* Path.resolve(): fails on an embedded null character.
PathResolve(p) ==
    IF \E i \in 1..Len(p) : p[i] = "NUL" THEN Raise("ValueError")
    ELSE IF StartsWith(p, <<"/">>) THEN Val(p)
    ELSE Val(Cwd \o <<"/">> \o p)

\* "except Exception" around p.resolve()
ValidatorCatches(e) == e \in {"ValueError", "OSError", "RuntimeError"}

NegativeRangeStartOnly(loc) ==
    loc.range.start.line < 0 \/ loc.range.start.character < 0

NegativeRange(loc) ==
    \/ loc.range.start.line < 0 \/ loc.range.start.character < 0
    \/ loc.range.end.line < 0 \/ loc.range.end.character < 0

_looks_like_valid_location(loc, repo_root) ==
    LET p == _uri_to_path(loc.uri)
        r == PathResolve(p)
    IN  IF r.exc # "none"
        THEN (IF ValidatorCatches(r.exc) THEN Val(FALSE) ELSE r)
        ELSE IF NegativeRange(loc) THEN Val(FALSE)
        ELSE Val(TRUE)

MaxCoord == 1
Coords == -1..MaxCoord
UriVals ==
    {<<"file:", "/", "/", "/", "w", "/", "a">>,
     <<"file:", "/", "/", "/", "u", "/", "a">>,
     <<"file:", "/", "/", "a">>,
     <<"/", "w", "/", "a">>,
     <<"/", "u", "/", "a">>,
     <<"a">>,
     <<"file:", "/", "/", "/", "NUL">>,
     <<"NUL", "a">>}
RootVals == {<<"/", "w">>, <<"/", "u">>}

ValidInit ==
    /\ v_loc \in {Location(u, Range(Position(a, b), Position(c, d))) :
                    u \in UriVals, a \in Coords, b \in Coords,
                    c \in Coords, d \in Coords}
    /\ v_root \in RootVals
    /\ v_out = Val(FALSE)
    /\ v_pc = "call"

ValidIdle ==
    /\ v_loc = Location(<<>>, Range(Position(0, 0), Position(0, 0)))
    /\ v_root = <<>>
    /\ v_out = Val(FALSE)
    /\ v_pc = "off"

ValidCall ==
    /\ v_pc = "call"
    /\ v_out' = _looks_like_valid_location(v_loc, v_root)
    /\ v_pc' = "done"
    /\ UNCHANGED <<v_loc, v_root, parseVars, clientVars, mainVars, reproVars, dailyVars, cfgVars, pickVars, caseVars, latVars, frameVars>>

(***************************************************************************)
(* LspClient: one session of run_one_server.  The worker thread calls      *)
(* start, initialize, open_document, definition and stop; the reader       *)
(* thread runs _rx_loop; the server writes messages to its stdout.         *)
(***************************************************************************)
MaxServerMsgs == 2
PipeCap == 1

\* A decoded JSON-RPC message: which of "id", "method", "error", "result" it has.
Msg(id, method, error, result) ==
    [id |-> id, method |-> method, error |-> error, result |-> result]
Response(i, r) == Msg(Some(i), FALSE, FALSE, Some(r))
ErrorResponse(i) == Msg(Some(i), FALSE, TRUE, None)
Notification == Msg(None, TRUE, FALSE, None)
ServerRequest(i) == Msg(Some(i), TRUE, FALSE, None)

OneLocation == JDict([uri |-> UriA, range |-> GoodRange])
MalformedList == JList(<<JDict([invalid |-> JStr(<<"o">>)])>>)
ResultVals == {OneLocation, MalformedList}
ServerIds == {1, 2, 3}
ServerMsgs ==
    {Response(i, r) : i \in ServerIds, r \in ResultVals}
    \cup {ErrorResponse(i) : i \in ServerIds}
    \cup {ServerRequest(i) : i \in ServerIds}
    \cup {Notification}

Unset == [exc |-> "unset"]

\* Exceptions derived from Exception that the session can raise.
Exceptions ==
    {"TimeoutError", "LspProtocolError", "RuntimeError", "BrokenPipeError",
     "FileNotFoundError", "OSError", "KeyError", "TypeError", "ValueError"}

DefinitionResult(ok, found, n, latency, error, locations) ==
    [ok |-> ok, found |-> found, n_locations |-> n, latency_ms |-> latency,
     error |-> error, locations |-> locations]

\* "except Exception" of definition()
DefinitionCatchesTimeoutOnly(e) == e = "TimeoutError"

DefinitionCatches(e) == e \in Exceptions

\* A definition() that reports every answered request as found.
DefinitionOkAlwaysFound(locs, dt) ==
    IF locs.exc # "none" THEN locs
    ELSE Val(DefinitionResult(TRUE, TRUE, Len(locs.v), Some(dt), None, locs.v))

\* definition(), the end of the try block: the DefinitionResult of a parsed result.
DefinitionOk(locs, dt) ==
    IF locs.exc # "none" THEN locs
    ELSE Val(DefinitionResult(TRUE, Len(locs.v) > 0, Len(locs.v),
                              Some(dt), None, locs.v))

\* definition(), the try block: req is the outcome of self.request(...).
DefinitionTry(req, dt) ==
    IF req.exc # "none" THEN req
    ELSE DefinitionOk(
             _parse_definition_result(
                 IF req.v.result.some THEN req.v.result.v ELSE JNull),
             dt)

\* definition(), the except clause applied to the outcome of the try block.
DefinitionExcept(body, dt) ==
    IF body.exc = "none" THEN body
    ELSE IF DefinitionCatches(body.exc)
    THEN Val(DefinitionResult(FALSE, FALSE, 0, Some(dt), Some(body.exc), <<>>))
    ELSE body

\* definition(): req is the outcome of self.request(...), dt the elapsed time.
definition(req, dt) == DefinitionExcept(DefinitionTry(req, dt), dt)

\* _send: the exception it raises, or "none" when the message was written.
SendExc ==
    IF proc = "none" THEN "RuntimeError"
    ELSE IF srv # "alive" THEN "BrokenPipeError"
    ELSE "none"

Wire(method, id) == [method |-> method, id |-> id]

ClientInit ==
    /\ c_pc = "start" /\ c_op = "none" /\ c_req_id = 0 /\ c_exc = "none"
    /\ req_out = Unset /\ def_req = Unset /\ def_result = None
    /\ worker_out = Unset
    /\ use_settings \in BOOLEAN
    /\ proc = "none" /\ shutdown_flag = FALSE /\ next_id = 1
    /\ pending = {} /\ waiters = <<>> /\ rx_queue = <<>>
    /\ rx_pc = "off" /\ rx_msg = Notification /\ rx_key = 0
    /\ srv = "absent" /\ stdout_pipe = <<>> /\ emitted = 0 /\ sent = <<>>
    /\ returned = {} /\ extra_stops = 0 /\ proc_end = "none"

ClientIdle ==
    /\ c_pc = "off" /\ c_op = "none" /\ c_req_id = 0 /\ c_exc = "none"
    /\ req_out = Unset /\ def_req = Unset /\ def_result = None
    /\ worker_out = Unset
    /\ use_settings = FALSE
    /\ proc = "none" /\ shutdown_flag = FALSE /\ next_id = 1
    /\ pending = {} /\ waiters = <<>> /\ rx_queue = <<>>
    /\ rx_pc = "off" /\ rx_msg = Notification /\ rx_key = 0
    /\ srv = "absent" /\ stdout_pipe = <<>> /\ emitted = 0 /\ sent = <<>>
    /\ returned = {} /\ extra_stops = 0 /\ proc_end = "none"

\* __enter__ -> start(): Popen either raises or the process and the reader run.
ClientStart ==
    /\ c_pc = "start"
    /\ \/ /\ worker_out' = Raise("FileNotFoundError")
          /\ c_pc' = "done"
          /\ UNCHANGED <<c_op, proc, srv, rx_pc>>
       \/ /\ proc' = "running" /\ srv' = "alive" /\ rx_pc' = "read"
          /\ c_pc' = "req_send" /\ c_op' = "initialize"
          /\ UNCHANGED worker_out
    /\ UNCHANGED <<c_req_id, c_exc, req_out, def_req, def_result, use_settings,
                   shutdown_flag, next_id, pending, waiters, rx_queue,
                   rx_msg, rx_key, stdout_pipe, emitted, sent, histVars,
                   parseVars, validVars, mainVars, reproVars, dailyVars, cfgVars, pickVars, caseVars, latVars, frameVars>>

\* request(): allocate the id, register the waiter, _send the request.
RequestSend ==
    /\ c_pc = "req_send"
    /\ c_req_id' = next_id
    /\ next_id' = next_id + 1
    /\ waiters' = Append(waiters, <<>>)
    /\ pending' = pending \cup {next_id}
    /\ IF SendExc = "none"
       THEN /\ sent' = Append(sent, Wire(c_op, Some(next_id)))
            /\ c_pc' = "req_wait"
            /\ UNCHANGED req_out
       ELSE /\ req_out' = Raise(SendExc)
            /\ c_pc' = "req_ret"
            /\ UNCHANGED sent
    /\ UNCHANGED <<c_op, c_exc, def_req, def_result, worker_out, use_settings,
                   proc, shutdown_flag, rx_queue, rxVars, srv, stdout_pipe,
                   emitted, histVars, parseVars, validVars, mainVars, reproVars, dailyVars, cfgVars, pickVars, caseVars, latVars, frameVars>>

\* waiter.get(timeout=...) returns the queued message.
RequestGet ==
    /\ c_pc = "req_wait"
    /\ waiters[c_req_id] # <<>>
    /\ req_out' = Val(Head(waiters[c_req_id]))
    /\ waiters' = [waiters EXCEPT ![c_req_id] = Tail(@)]
    /\ c_pc' = "req_finally"
    /\ UNCHANGED <<c_op, c_req_id, c_exc, def_req, def_result, worker_out,
                   use_settings, proc, shutdown_flag, next_id, pending,
                   rx_queue, rxVars, serverVars, histVars, parseVars, validVars, mainVars, reproVars, dailyVars, cfgVars, pickVars, caseVars, latVars, frameVars>>

\* waiter.get(timeout=...) raises queue.Empty, turned into TimeoutError.
RequestTimeout ==
    /\ c_pc = "req_wait"
    /\ waiters[c_req_id] = <<>>
    /\ req_out' = Raise("TimeoutError")
    /\ c_pc' = "req_finally"
    /\ UNCHANGED <<c_op, c_req_id, c_exc, def_req, def_result, worker_out,
                   use_settings, fieldVars, rxVars, serverVars, histVars,
                   parseVars, validVars, mainVars, reproVars, dailyVars, cfgVars, pickVars, caseVars, latVars, frameVars>>

\* finally: self._pending.pop(req_id, None); then the "error" check and return.
RequestFinally ==
    /\ c_pc = "req_finally"
    /\ pending' = pending \ {c_req_id}
    /\ IF req_out.exc = "none" /\ req_out.v.error
       THEN req_out' = Raise("LspProtocolError") /\ UNCHANGED returned
       ELSE /\ UNCHANGED req_out
            /\ returned' =
                  IF req_out.exc = "none"
                  THEN returned \cup {[req_id |-> c_req_id, msg |-> req_out.v]}
                  ELSE returned
    /\ c_pc' = "req_ret"
    /\ UNCHANGED <<c_op, c_req_id, c_exc, def_req, def_result, worker_out,
                   use_settings, proc, shutdown_flag, next_id, waiters,
                   rx_queue, rxVars, serverVars, extra_stops, proc_end,
                   parseVars, validVars, mainVars, reproVars, dailyVars, cfgVars, pickVars, caseVars, latVars, frameVars>>

\* A notify(method) of the with-body: the next step, or the exception.
BodyNotify(method, next) ==
    /\ IF SendExc = "none"
       THEN /\ sent' = Append(sent, Wire(method, None))
            /\ c_pc' = next
            /\ UNCHANGED c_exc
       ELSE /\ c_exc' = SendExc
            /\ c_pc' = "stop"
            /\ UNCHANGED sent
    /\ UNCHANGED <<c_op, c_req_id, req_out, def_req, def_result, worker_out,
                   use_settings, fieldVars, rxVars, srv, stdout_pipe, emitted,
                   histVars, parseVars, validVars, mainVars, reproVars, dailyVars, cfgVars, pickVars, caseVars, latVars, frameVars>>

\* initialize() going on to the notification whatever the request ended with.
InitializeReturnUnawaited ==
    /\ c_pc = "req_ret" /\ c_op = "initialize"
    /\ c_pc' = "notify_initialized"
    /\ UNCHANGED <<c_op, c_req_id, c_exc, req_out, def_req, def_result, worker_out,
                   use_settings, fieldVars, rxVars, serverVars, histVars,
                   parseVars, validVars, mainVars, reproVars, dailyVars, cfgVars, pickVars, caseVars, latVars, frameVars>>

\* initialize(): self.request("initialize", ...) is back.
InitializeReturn ==
    /\ c_pc = "req_ret" /\ c_op = "initialize"
    /\ IF req_out.exc = "none"
       THEN c_pc' = "notify_initialized" /\ UNCHANGED c_exc
       ELSE c_pc' = "stop" /\ c_exc' = req_out.exc
    /\ UNCHANGED <<c_op, c_req_id, req_out, def_req, def_result, worker_out,
                   use_settings, fieldVars, rxVars, serverVars, histVars,
                   parseVars, validVars, mainVars, reproVars, dailyVars, cfgVars, pickVars, caseVars, latVars, frameVars>>

NotifyInitialized ==
    /\ c_pc = "notify_initialized"
    /\ BodyNotify("initialized",
                  IF use_settings THEN "change_configuration" ELSE "read_text")

ChangeConfiguration ==
    /\ c_pc = "change_configuration"
    /\ BodyNotify("workspace/didChangeConfiguration", "read_text")

\* A session whose failure to read the case file leaves run_one_server
\* without __exit__.
ReadTextWithoutExit ==
    /\ c_pc = "read_text"
    /\ \/ c_pc' = "open_document" /\ UNCHANGED <<c_exc, worker_out>>
       \/ c_pc' = "done" /\ c_exc' = "OSError" /\ worker_out' = Raise("OSError")
    /\ UNCHANGED <<c_op, c_req_id, req_out, def_req, def_result,
                   use_settings, fieldVars, rxVars, serverVars, histVars,
                   parseVars, validVars, mainVars, reproVars, dailyVars, cfgVars, pickVars, caseVars, latVars, frameVars>>

\* case.file_path.read_text(...)
ReadText ==
    /\ c_pc = "read_text"
    /\ \/ c_pc' = "open_document" /\ UNCHANGED c_exc
       \/ c_pc' = "stop" /\ c_exc' = "OSError"
    /\ UNCHANGED <<c_op, c_req_id, req_out, def_req, def_result, worker_out,
                   use_settings, fieldVars, rxVars, serverVars, histVars,
                   parseVars, validVars, mainVars, reproVars, dailyVars, cfgVars, pickVars, caseVars, latVars, frameVars>>

OpenDocument ==
    /\ c_pc = "open_document"
    /\ BodyNotify("textDocument/didOpen", "definition")

DefinitionCall ==
    /\ c_pc = "definition"
    /\ c_pc' = "req_send" /\ c_op' = "textDocument/definition"
    /\ UNCHANGED <<c_req_id, c_exc, req_out, def_req, def_result, worker_out,
                   use_settings, fieldVars, rxVars, serverVars, histVars,
                   parseVars, validVars, mainVars, reproVars, dailyVars, cfgVars, pickVars, caseVars, latVars, frameVars>>

\* The worker receives what definition() returned, or the exception it let out.
DefinitionReturns(d) ==
    IF d.exc = "none"
    THEN def_result' = Some(d.v) /\ UNCHANGED c_exc
    ELSE c_exc' = d.exc /\ UNCHANGED def_result

\* definition(): the request is back; build the DefinitionResult.
DefinitionReturn ==
    /\ c_pc = "req_ret" /\ c_op = "textDocument/definition"
    /\ def_req' = req_out
    /\ DefinitionReturns(definition(req_out, 1))
    /\ c_pc' = "stop"
    /\ UNCHANGED <<c_op, c_req_id, req_out, worker_out, use_settings,
                   fieldVars, rxVars, serverVars, histVars, parseVars, validVars, mainVars, reproVars, dailyVars, cfgVars, pickVars, caseVars, latVars, frameVars>>

\* The value or exception run_one_server ends with.
WorkerOutcome == IF c_exc # "none" THEN Raise(c_exc) ELSE Val(def_result.v)

MaxExtraStops == 1

\* stop() without the guard on _proc.
StopWithoutProcGuard ==
    /\ c_pc = "stop"
    /\ IF ~shutdown_flag
       THEN c_pc' = "req_send" /\ c_op' = "shutdown" /\ UNCHANGED worker_out
       ELSE c_pc' = "terminate" /\ UNCHANGED <<c_op, worker_out>>
    /\ UNCHANGED <<c_req_id, c_exc, req_out, def_req, def_result, use_settings,
                   fieldVars, rxVars, serverVars, histVars, parseVars, validVars, mainVars, reproVars, dailyVars, cfgVars, pickVars, caseVars, latVars, frameVars>>

\* __exit__ -> stop(), or a further stop(): the guards on _proc and _shutdown.
Stop ==
    /\ c_pc = "stop"
    /\ IF proc = "none"
       THEN /\ c_pc' = "done"
            /\ worker_out' = IF worker_out = Unset THEN WorkerOutcome ELSE worker_out
            /\ UNCHANGED c_op
       ELSE IF ~shutdown_flag
       THEN c_pc' = "req_send" /\ c_op' = "shutdown" /\ UNCHANGED worker_out
       ELSE c_pc' = "terminate" /\ UNCHANGED <<c_op, worker_out>>
    /\ UNCHANGED <<c_req_id, c_exc, req_out, def_req, def_result, use_settings,
                   fieldVars, rxVars, serverVars, histVars, parseVars, validVars, mainVars, reproVars, dailyVars, cfgVars, pickVars, caseVars, latVars, frameVars>>

\* stop(): self.request("shutdown", {}) is back; its failure is swallowed.
ShutdownReturn ==
    /\ c_pc = "req_ret" /\ c_op = "shutdown"
    /\ c_pc' = "notify_exit"
    /\ UNCHANGED <<c_op, c_req_id, c_exc, req_out, def_req, def_result,
                   worker_out, use_settings, fieldVars, rxVars, serverVars,
                   histVars, parseVars, validVars, mainVars, reproVars, dailyVars, cfgVars, pickVars, caseVars, latVars, frameVars>>

\* stop(): self.notify("exit", {}) with its failure swallowed; _shutdown = True.
NotifyExit ==
    /\ c_pc = "notify_exit"
    /\ sent' = IF SendExc = "none" THEN Append(sent, Wire("exit", None)) ELSE sent
    /\ shutdown_flag' = TRUE
    /\ c_pc' = "terminate"
    /\ UNCHANGED <<c_op, c_req_id, c_exc, req_out, def_req, def_result,
                   worker_out, use_settings, proc, next_id, pending, waiters,
                   rx_queue, rxVars, srv, stdout_pipe, emitted, histVars,
                   parseVars, validVars, mainVars, reproVars, dailyVars, cfgVars, pickVars, caseVars, latVars, frameVars>>

\* stop() that does not kill a process that outlives the grace period.
TerminateWithoutKill ==
    /\ c_pc = "terminate"
    /\ \E exits \in BOOLEAN :
          /\ srv' = IF exits THEN "dead" ELSE srv
          /\ proc_end' = IF srv = "alive" /\ exits THEN "terminate" ELSE proc_end
    /\ proc' = "none"
    /\ c_pc' = "done"
    /\ worker_out' = IF worker_out = Unset THEN WorkerOutcome ELSE worker_out
    /\ UNCHANGED <<c_op, c_req_id, c_exc, req_out, def_req, def_result,
                   use_settings, shutdown_flag, next_id, pending, waiters,
                   rx_queue, rxVars, stdout_pipe, emitted, sent, returned, extra_stops,
                   parseVars, validVars, mainVars, reproVars, dailyVars, cfgVars, pickVars, caseVars, latVars, frameVars>>

\* stop(): terminate(); wait(timeout=3), and kill() when the process has not
\* exited by then; self._proc = None.
Terminate ==
    /\ c_pc = "terminate"
    /\ \E exits \in BOOLEAN :
          proc_end' = IF srv # "alive" THEN proc_end
                      ELSE IF exits THEN "terminate" ELSE "kill"
    /\ srv' = "dead"
    /\ proc' = "none"
    /\ c_pc' = "done"
    /\ worker_out' = IF worker_out = Unset THEN WorkerOutcome ELSE worker_out
    /\ UNCHANGED <<c_op, c_req_id, c_exc, req_out, def_req, def_result,
                   use_settings, shutdown_flag, next_id, pending, waiters,
                   rx_queue, rxVars, stdout_pipe, emitted, sent, returned, extra_stops,
                   parseVars, validVars, mainVars, reproVars, dailyVars, cfgVars, pickVars, caseVars, latVars, frameVars>>

\* The owner of the client calls stop() once more, after the session is over
\* or after start() failed.
StopAgain ==
    /\ c_pc = "done"
    /\ extra_stops < MaxExtraStops
    /\ extra_stops' = extra_stops + 1
    /\ c_pc' = "stop"
    /\ UNCHANGED <<c_op, c_req_id, c_exc, req_out, def_req, def_result,
                   worker_out, use_settings, fieldVars, rxVars, serverVars,
                   returned, proc_end, parseVars, validVars, mainVars, reproVars, dailyVars, cfgVars, pickVars, caseVars, latVars, frameVars>>

\* _rx_loop: the key of the waiter a message is routed to, or None for the
\* notification queue ("id" in msg and msg.get("id") in self._pending).
RouteKeyAnyPending(msg, pend) ==
    IF pend # {} THEN Some(CHOOSE k \in pend : \A j \in pend : j <= k) ELSE None

RouteKey(msg, pend) ==
    IF msg.id.some /\ msg.id.v \in pend THEN Some(msg.id.v) ELSE None

\* _rx_loop: read one framed message and decide where it goes.
RxRead ==
    /\ rx_pc = "read"
    /\ stdout_pipe # <<>>
    /\ LET msg == Head(stdout_pipe)
           key == RouteKey(msg, pending)
       IN  /\ stdout_pipe' = Tail(stdout_pipe)
           /\ IF key.some
              THEN /\ rx_pc' = "lookup" /\ rx_msg' = msg /\ rx_key' = key.v
                   /\ UNCHANGED rx_queue
              ELSE /\ rx_queue' = Append(rx_queue, msg)
                   /\ UNCHANGED rxVars
    /\ UNCHANGED <<callerVars, proc, shutdown_flag, next_id, pending, waiters,
                   srv, emitted, sent, histVars, parseVars, validVars, mainVars, reproVars, dailyVars, cfgVars, pickVars, caseVars, latVars, frameVars>>

\* _rx_loop: readline() returns b"" at end of file.
RxEof ==
    /\ rx_pc = "read"
    /\ stdout_pipe = <<>>
    /\ srv = "dead"
    /\ rx_pc' = "dead"
    /\ UNCHANGED <<callerVars, fieldVars, rx_msg, rx_key, serverVars, histVars,
                   parseVars, validVars, mainVars, reproVars, dailyVars, cfgVars, pickVars, caseVars, latVars, frameVars>>

\* _rx_loop: self._pending[msg["id"]] and the start of .put(msg).
RxLookup ==
    /\ rx_pc = "lookup"
    /\ IF rx_key \notin pending
       THEN rx_pc' = "dead" /\ UNCHANGED waiters
       ELSE IF Len(waiters[rx_key]) < 1
       THEN /\ waiters' = [waiters EXCEPT ![rx_key] = Append(@, rx_msg)]
            /\ rx_pc' = "read"
       ELSE rx_pc' = "put" /\ UNCHANGED waiters
    /\ UNCHANGED <<callerVars, proc, shutdown_flag, next_id, pending, rx_queue,
                   rx_msg, rx_key, serverVars, histVars, parseVars, validVars, mainVars, reproVars, dailyVars, cfgVars, pickVars, caseVars, latVars, frameVars>>

\* _rx_loop: a put() that found the one-slot queue full goes on when it has room.
RxPut ==
    /\ rx_pc = "put"
    /\ Len(waiters[rx_key]) < 1
    /\ waiters' = [waiters EXCEPT ![rx_key] = Append(@, rx_msg)]
    /\ rx_pc' = "read"
    /\ UNCHANGED <<callerVars, proc, shutdown_flag, next_id, pending, rx_queue,
                   rx_msg, rx_key, serverVars, histVars, parseVars, validVars, mainVars, reproVars, dailyVars, cfgVars, pickVars, caseVars, latVars, frameVars>>

\* The server writes one message to its stdout.
ServerEmit ==
    /\ srv = "alive"
    /\ emitted < MaxServerMsgs
    /\ Len(stdout_pipe) < PipeCap
    /\ \E m \in ServerMsgs : stdout_pipe' = Append(stdout_pipe, m)
    /\ emitted' = emitted + 1
    /\ UNCHANGED <<callerVars, fieldVars, rxVars, srv, sent, histVars,
                   parseVars, validVars, mainVars, reproVars, dailyVars, cfgVars, pickVars, caseVars, latVars, frameVars>>

\* The server process exits on its own.
ServerDies ==
    /\ srv = "alive"
    /\ srv' = "dead"
    /\ UNCHANGED <<callerVars, fieldVars, rxVars, stdout_pipe, emitted, sent,
                   histVars, parseVars, validVars, mainVars, reproVars, dailyVars, cfgVars, pickVars, caseVars, latVars, frameVars>>

ClientNext ==
    \/ ClientStart \/ RequestSend \/ RequestGet \/ RequestTimeout
    \/ RequestFinally \/ InitializeReturn \/ NotifyInitialized
    \/ ChangeConfiguration \/ ReadText \/ OpenDocument \/ DefinitionCall
    \/ DefinitionReturn \/ Stop \/ ShutdownReturn \/ NotifyExit \/ Terminate
    \/ StopAgain
    \/ RxRead \/ RxEof \/ RxLookup \/ RxPut \/ ServerEmit \/ ServerDies

(***************************************************************************)
(* The case sampler: random.Random, pick_random_python_file,               *)
(* pick_random_identifier_case, pick_random_case.                          *)
(***************************************************************************)
\* random.Random as a linear congruential generator of full period.
RngMod == 8
RngStates == 0..(RngMod - 1)
RngNext(s) == (5 * s + 3) % RngMod

\* random.Random(seed): the seed decides the state; None draws on OS entropy.
InitRngFromEntropy(seed, ent) == ent

InitRng(seed, ent) == IF seed.some THEN seed.v % RngMod ELSE ent

\* n.bit_length() for the lengths that occur
BitLength(n) == IF n < 2 THEN 1 ELSE IF n < 4 THEN 2 ELSE 3
Pow2(k) == IF k = 1 THEN 2 ELSE IF k = 2 THEN 4 ELSE 8

\* Random._randbelow(n): draw k bits until the draw is below n.
RECURSIVE RandBelow(_, _)
RandBelow(s, n) ==
    LET r == s % Pow2(BitLength(n)) IN
    IF r < n THEN [v |-> r, rng |-> RngNext(s)] ELSE RandBelow(RngNext(s), n)

\* rng.choice(seq) of a non-empty sequence
Choice(s, seq) ==
    LET d == RandBelow(s, Len(seq)) IN [v |-> seq[d.v + 1], rng |-> d.rng]

Occ(line, col, tok, kind) == [line |-> line, col |-> col, tok |-> tok, kind |-> kind]

\* A source tree: for each .py file under the root, in the order rglob lists
\* them, the candidate occurrences the file yields.
NormalTree ==
    << <<>>,
       <<Occ(0, 7, "os", "imported_name"), Occ(1, 4, "f", "name"),
         Occ(1, 19, "getcwd", "imported_attr_call")>>,
       <<Occ(0, 0, "x", "regex"), Occ(2, 1, "y", "regex")>> >>
BarrenTree == << <<>>, <<>> >>
EmptyTree == <<>>
Trees == {NormalTree, BarrenTree, EmptyTree}

BenchmarkCase(file, occ) ==
    [file |-> file, line |-> occ.line, character |-> occ.col,
     token |-> occ.tok, kind |-> occ.kind]

preferred_kinds ==
    {"imported_name", "imported_attr", "imported_call", "imported_attr_call"}

IsPreferred(c) == c.kind \in preferred_kinds

\* The choice made over all the candidates, whatever their kinds.
PickAmongAllCandidates(t, f, s) ==
    IF t[f] = <<>>
    THEN [exc |-> "RuntimeError", msg |-> "no_identifier", rng |-> s, tried |-> <<>>]
    ELSE [exc |-> "none", msg |-> "", v |-> BenchmarkCase(f, Choice(s, t[f]).v),
          rng |-> Choice(s, t[f]).rng, tried |-> <<>>]

\* pick_random_identifier_case on file f of tree t
pick_random_identifier_case(t, f, s) ==
    LET candidates == t[f]
        preferred == SelectSeq(candidates, IsPreferred)
        pool == IF preferred # <<>> THEN preferred ELSE candidates
    IN  IF candidates = <<>>
        THEN [exc |-> "RuntimeError", msg |-> "no_identifier", rng |-> s, tried |-> <<>>]
        ELSE LET c == Choice(s, pool) IN
             [exc |-> "none", msg |-> "", v |-> BenchmarkCase(f, c.v), rng |-> c.rng,
              tried |-> <<>>]

max_file_tries == 50

\* pick_random_python_file: rng.choice over the files of a tree that has some.
pick_random_python_file(t, s) == Choice(s, [i \in 1..Len(t) |-> i])

\* pick_random_case: the loop over max_file_tries files.  st is the state of
\* the loop: whether it has returned or raised (done), the outcome, the rng,
\* and the files attempted so far.  A tree without files raises from
\* pick_random_python_file, outside the try; a file without candidates raises
\* inside it and the loop goes on.
Returned(c, tried) ==
    [done |-> TRUE, exc |-> "none", msg |-> "", v |-> c.v, rng |-> c.rng, tried |-> tried]

Failing(done, msg, s, tried) ==
    [done |-> done, exc |-> "RuntimeError", msg |-> msg, rng |-> s, tried |-> tried]

\* An attempt that gives up at the first file without candidates.
PickTryOnce(t, st, f) ==
    IF t[f.v] = <<>> THEN Failing(TRUE, "exhausted", f.rng, Append(st.tried, f.v))
    ELSE Returned(pick_random_identifier_case(t, f.v, f.rng), Append(st.tried, f.v))

\* The try of one iteration, on the file f that was picked
PickTry(t, st, f) ==
    IF t[f.v] = <<>> THEN Failing(FALSE, "exhausted", f.rng, Append(st.tried, f.v))
    ELSE Returned(pick_random_identifier_case(t, f.v, f.rng), Append(st.tried, f.v))

\* One iteration of the loop
PickIteration(t, st) ==
    IF st.done THEN st
    ELSE IF t = <<>> THEN Failing(TRUE, "no_py_files", st.rng, st.tried)
    ELSE PickTry(t, st, pick_random_python_file(t, st.rng))

\* n iterations, one after the other; a loop that has returned or raised
\* runs no further iteration.
RECURSIVE PickLoop(_, _, _)
PickRest(t, st, n) == IF st.done THEN st ELSE PickLoop(t, st, n)

PickLoop(t, st, n) ==
    IF n = 0 THEN st
    ELSE IF n = 1 THEN PickIteration(t, st)
    ELSE PickRest(t, PickLoop(t, st, n \div 2), n - (n \div 2))

\* The raise after the loop is the outcome of a loop that never returned.
pick_random_case(t, s) ==
    PickLoop(t, Failing(FALSE, "exhausted", s, <<>>), max_file_tries)

(***************************************************************************)
(* pick_random_identifier_case on source text: the occurrences of the      *)
(* syntax tree, the re-location of their column, the regex fallback.       *)
(***************************************************************************)
Letters ==
    {"a", "b", "c", "d", "e", "f", "g", "h", "i", "j", "k", "l", "m", "n", "o",
     "p", "q", "r", "s", "t", "u", "v", "w", "x", "y", "z", "T", "F", "N"}
IsIdStart(c) == c \in Letters \cup {"_"}
IsWordChar(c) == IsIdStart(c) \/ IsDigit(c)

\* The names excluded from the candidates (the same set in the visitor and
\* in the regex fallback).
banned ==
    {<<"T", "r", "u", "e">>,
     <<"F", "a", "l", "s", "e">>,
     <<"N", "o", "n", "e">>,
     <<"s", "e", "l", "f">>,
     <<"c", "l", "s">>,
     <<"i", "n", "t">>,
     <<"s", "t", "r">>,
     <<"f", "l", "o", "a", "t">>,
     <<"b", "o", "o", "l">>,
     <<"l", "i", "s", "t">>,
     <<"d", "i", "c", "t">>,
     <<"s", "e", "t">>,
     <<"t", "u", "p", "l", "e">>,
     <<"o", "b", "j", "e", "c", "t">>}

IsBanned(tok) == tok \in banned

\* str.find: the 0-based index of the first occurrence of tok in s, or -1
Find(s, tok) ==
    LET hits == {i \in 0..(Len(s) - Len(tok)) : SubSeq(s, i + 1, i + Len(tok)) = tok}
    IN  IF hits = {} THEN -1 ELSE CHOOSE i \in hits : \A j \in hits : i <= j

\* The end (exclusive, 0-based) of the run of word characters that starts at i
RECURSIVE RunEnd(_, _)
RunEnd(s, i) == IF i < Len(s) /\ IsWordChar(s[i + 1]) THEN RunEnd(s, i + 1) ELSE i

\* The starts of the matches of _IDENTIFIER_RE (\b[A-Za-z_][A-Za-z0-9_]*\b)
MatchStarts(s) ==
    {i \in 0..(Len(s) - 1) : IsIdStart(s[i + 1]) /\ (i = 0 \/ ~IsWordChar(s[i]))}

Match(s, i) == [start |-> i, end |-> RunEnd(s, i), text |-> SubSeq(s, i + 1, RunEnd(s, i))]

\* _IDENTIFIER_RE.search(s, pos): the first match that starts at or after pos
RegexSearch(s, pos) ==
    LET starts == {i \in MatchStarts(s) : i >= pos} IN
    IF starts = {} THEN None
    ELSE Some(Match(s, CHOOSE i \in starts : \A j \in starts : i <= j))

\* _token_from_line_at(lines, line_1b, col_0b)
_token_from_line_at(lines, line_1b, col_0b) ==
    LET line0 == line_1b - 1 IN
    IF ~(0 <= line0 /\ line0 < Len(lines)) THEN None
    ELSE IF col_0b < 0 \/ col_0b >= Len(lines[line0 + 1]) THEN None
    ELSE LET m == RegexSearch(lines[line0 + 1], col_0b) IN
         IF m = None THEN None
         ELSE IF ~(m.v.start <= col_0b /\ col_0b <= m.v.end) /\ m.v.start # col_0b
         THEN None
         ELSE Some(m.v.text)

\* _collect_ast_occurrences: imported_names and imported_modules
imported_names(f) == {f.imports[i].asname : i \in 1..Len(f.imports)}
imported_modules(f) ==
    {f.imports[i].asname : i \in {j \in 1..Len(f.imports) : f.imports[j].stmt = "import"}}

AstOccurrence(line_1b, col_0b, token, kind) ==
    [line_1b |-> line_1b, col_0b |-> col_0b, token |-> token, kind |-> kind]

\* The visitor V on one node: the occurrence it records, if any.
Visit(f, n) ==
    IF IsBanned(n.id) THEN <<>>
    ELSE <<AstOccurrence(n.lineno, n.col_offset, n.id,
             CASE n.type = "Name" ->
                    IF n.id \in imported_names(f) THEN "imported_name" ELSE "name"
               [] n.type = "CallName" ->
                    IF n.id \in imported_names(f) THEN "imported_call" ELSE "call"
               [] n.type = "Attribute" ->
                    IF n.base \in imported_modules(f) THEN "imported_attr" ELSE "attr"
               [] n.type = "CallAttr" ->
                    IF n.base \in imported_modules(f) THEN "imported_attr_call"
                    ELSE "attr_call")>>

RECURSIVE VisitAll(_, _)
VisitAll(f, nodes) ==
    IF nodes = <<>> THEN <<>> ELSE Visit(f, Head(nodes)) \o VisitAll(f, Tail(nodes))

\* _collect_ast_occurrences(src): nothing for a source that does not parse
_collect_ast_occurrences(f) == IF f.parses THEN VisitAll(f, f.nodes) ELSE <<>>

\* The candidate of one occurrence: its column moved to the first place the
\* token's text is found on the line, its token read back from that place.
AstCandidate(f, o) ==
    LET line0 == o.line_1b - 1 IN
    IF ~(0 <= line0 /\ line0 < Len(f.lines)) THEN <<>>
    ELSE LET idx == IF o.token # <<>> THEN Find(f.lines[line0 + 1], o.token) ELSE -1
             col0 == IF idx # -1 THEN idx ELSE o.col_0b
             at == _token_from_line_at(f.lines, o.line_1b, col0)
             tok == IF at # None /\ at.v # <<>> THEN at.v ELSE o.token
         IN  IF tok = <<>> THEN <<>> ELSE <<Occ(line0, col0, tok, o.kind)>>

RECURSIVE AstCandidates(_, _)
AstCandidates(f, occ) ==
    IF occ = <<>> THEN <<>>
    ELSE AstCandidate(f, Head(occ)) \o AstCandidates(f, Tail(occ))

\* The regex fallback on one line: every identifier that is not excluded
RECURSIVE RegexFrom(_, _, _)
RegexFrom(line, i, pos) ==
    LET m == RegexSearch(line, pos) IN
    IF m = None THEN <<>>
    ELSE (IF IsBanned(m.v.text) THEN <<>> ELSE <<Occ(i, m.v.start, m.v.text, "regex")>>)
         \o RegexFrom(line, i, m.v.end)

RECURSIVE RegexCandidates(_, _)
RegexCandidates(lines, i) ==
    IF i >= Len(lines) THEN <<>>
    ELSE RegexFrom(lines[i + 1], i, 0) \o RegexCandidates(lines, i + 1)

\* The candidates pick_random_identifier_case builds for a source file
Candidates(f) ==
    IF AstCandidates(f, _collect_ast_occurrences(f)) # <<>>
    THEN AstCandidates(f, _collect_ast_occurrences(f))
    ELSE RegexCandidates(f.lines, 0)

\* Source files: their lines, whether they parse, their imports, and the
\* Name, Attribute and Call nodes of their syntax tree.
SourceFiles ==
    << \* t = 1 / int(t)
       [lines |-> <<<<"t", " ", "=", " ", "1">>, <<"i", "n", "t", "(", "t", ")">>>>,
     parses |-> TRUE,
     imports |-> <<>>,
     nodes |-> <<[type |-> "Name", lineno |-> 1, col_offset |-> 0, id |-> <<"t">>, base |-> <<>>],
               [type |-> "CallName", lineno |-> 2, col_offset |-> 0, id |-> <<"i", "n", "t">>, base |-> <<>>],
               [type |-> "Name", lineno |-> 2, col_offset |-> 0, id |-> <<"i", "n", "t">>, base |-> <<>>],
               [type |-> "Name", lineno |-> 2, col_offset |-> 4, id |-> <<"t">>, base |-> <<>>]>>],
       \* se = 1 / self = se
       [lines |-> <<<<"s", "e", " ", "=", " ", "1">>, <<"s", "e", "l", "f", " ", "=", " ", "s", "e">>>>,
     parses |-> TRUE,
     imports |-> <<>>,
     nodes |-> <<[type |-> "Name", lineno |-> 1, col_offset |-> 0, id |-> <<"s", "e">>, base |-> <<>>],
               [type |-> "Name", lineno |-> 2, col_offset |-> 0, id |-> <<"s", "e", "l", "f">>, base |-> <<>>],
               [type |-> "Name", lineno |-> 2, col_offset |-> 7, id |-> <<"s", "e">>, base |-> <<>>]>>],
       \* import os / x = os.sep
       [lines |-> <<<<"i", "m", "p", "o", "r", "t", " ", "o", "s">>, <<"x", " ", "=", " ", "o", "s", ".", "s", "e", "p">>>>,
     parses |-> TRUE,
     imports |-> <<[stmt |-> "import", asname |-> <<"o", "s">>]>>,
     nodes |-> <<[type |-> "Name", lineno |-> 2, col_offset |-> 0, id |-> <<"x">>, base |-> <<>>],
               [type |-> "Attribute", lineno |-> 2, col_offset |-> 4, id |-> <<"s", "e", "p">>, base |-> <<"o", "s">>],
               [type |-> "Name", lineno |-> 2, col_offset |-> 4, id |-> <<"o", "s">>, base |-> <<>>]>>],
       \* from m import g / g(a) / a.b()
       [lines |-> <<<<"f", "r", "o", "m", " ", "m", " ", "i", "m", "p", "o", "r", "t", " ", "g">>, <<"g", "(", "a", ")">>, <<"a", ".", "b", "(", ")">>>>,
     parses |-> TRUE,
     imports |-> <<[stmt |-> "from", asname |-> <<"g">>]>>,
     nodes |-> <<[type |-> "CallName", lineno |-> 2, col_offset |-> 0, id |-> <<"g">>, base |-> <<>>],
               [type |-> "Name", lineno |-> 2, col_offset |-> 0, id |-> <<"g">>, base |-> <<>>],
               [type |-> "Name", lineno |-> 2, col_offset |-> 2, id |-> <<"a">>, base |-> <<>>],
               [type |-> "CallAttr", lineno |-> 3, col_offset |-> 0, id |-> <<"b">>, base |-> <<"a">>],
               [type |-> "Attribute", lineno |-> 3, col_offset |-> 0, id |-> <<"b">>, base |-> <<"a">>],
               [type |-> "Name", lineno |-> 3, col_offset |-> 0, id |-> <<"a">>, base |-> <<>>]>>],
       \* def f(: / self int x (   (does not parse)
       [lines |-> <<<<"d", "e", "f", " ", "f", "(", ":">>, <<"s", "e", "l", "f", " ", "i", "n", "t", " ", "x", " ", "(">>>>,
     parses |-> FALSE,
     imports |-> <<>>,
     nodes |-> <<>>],
       \* (empty file)
       [lines |-> <<>>,
     parses |-> TRUE,
     imports |-> <<>>,
     nodes |-> <<>>],
       \* a = b
       [lines |-> <<<<"a", " ", "=", " ", "b">>>>,
     parses |-> TRUE,
     imports |-> <<>>,
     nodes |-> <<[type |-> "Name", lineno |-> 1, col_offset |-> 0, id |-> <<"a">>, base |-> <<>>],
               [type |-> "Name", lineno |-> 1, col_offset |-> 4, id |-> <<"b">>, base |-> <<>>]>>],
       \* # int   (a comment only)
       [lines |-> <<<<"#", " ", "i", "n", "t">>>>,
     parses |-> TRUE,
     imports |-> <<>>,
     nodes |-> <<>>] >>

\* The tree of these files, as the candidates of each
SourceTree == [i \in 1..Len(SourceFiles) |-> Candidates(SourceFiles[i])]

PickInit ==
    /\ p_file \in 1..Len(SourceFiles)
    /\ p_rng \in RngStates
    /\ p_out = Unset
    /\ p_pc = "call"

PickIdle == p_file = 0 /\ p_rng = 0 /\ p_out = Unset /\ p_pc = "off"

\* pick_random_identifier_case(file_path, rng=rng)
PickIdentifierCase ==
    /\ p_pc = "call"
    /\ p_out' = pick_random_identifier_case(SourceTree, p_file, p_rng)
    /\ p_pc' = "done"
    /\ UNCHANGED <<p_file, p_rng, parseVars, validVars, clientVars, mainVars,
                   reproVars, dailyVars, cfgVars, caseVars, latVars, frameVars>>

\* pick_random_case over trees of up to MaxFiles of the source files
MaxFiles == 2

FileSeqs == UNION {[1..n -> {SourceTree[i] : i \in 1..Len(SourceFiles)}] : n \in 0..MaxFiles}

CaseInit ==
    /\ k_tree \in FileSeqs \cup Trees
    /\ k_rng \in RngStates
    /\ k_out = Unset
    /\ k_pc = "call"

CaseIdle == k_tree = <<>> /\ k_rng = 0 /\ k_out = Unset /\ k_pc = "off"

\* pick_random_case(root, rng=rng)
PickCase ==
    /\ k_pc = "call"
    /\ k_out' = pick_random_case(k_tree, k_rng)
    /\ k_pc' = "done"
    /\ UNCHANGED <<k_tree, k_rng, parseVars, validVars, clientVars, mainVars,
                   reproVars, dailyVars, cfgVars, pickVars, latVars, frameVars>>

(***************************************************************************)
(* _rx_loop on the bytes of the server's stdout: the header lines, the     *)
(* body read, the parse.  The pipe is opened unbuffered (bufsize=0), so    *)
(* stream is a raw file: readline() reads byte by byte up to the line end, *)
(* read(n) makes one system call and returns the bytes the pipe holds, up  *)
(* to n.                                                                   *)
(***************************************************************************)
\* The bytes of a stream, in units: the text of a header line, a line end,
\* one byte of the body of message id.
LengthHeader(n) == [k |-> "content-length", n |-> n, id |-> 0]
OtherHeader == [k |-> "other", n |-> 0, id |-> 0]
Eol == [k |-> "eol", n |-> 0, id |-> 0]
BodyByte(id) == [k |-> "body", n |-> 0, id |-> id]

\* The length of the bodies, in bytes
BodyLen == 2

Body(id) == [i \in 1..BodyLen |-> BodyByte(id)]

\* A frame: Content-Length: N, the blank line, the N bytes of the body
Frame(id) == <<LengthHeader(BodyLen), Eol, Eol>> \o Body(id)

\* A frame with one more header before Content-Length
FrameWithHeader(id) == <<OtherHeader, Eol>> \o Frame(id)

\* A header block without Content-Length
BlockWithoutLength == <<OtherHeader, Eol, Eol>>

\* What the server writes in a session
Streams ==
    {Frame(1) \o Frame(2),
     BlockWithoutLength \o Frame(1),
     FrameWithHeader(1) \o BlockWithoutLength \o Frame(2)}

\* The messages of the frames of a stream, in order
RECURSIVE MessagesOf(_)
MessagesOf(bytes) ==
    IF bytes = <<>> THEN <<>>
    ELSE IF Head(bytes).k = "content-length"
    THEN <<Head(SubSeq(bytes, 4, Len(bytes))).id>> \o MessagesOf(Tail(bytes))
    ELSE MessagesOf(Tail(bytes))

NoHeaders == [some |-> FALSE]

FrameInit ==
    /\ fr_stream \in Streams
    /\ fr_unwritten = fr_stream
    /\ fr_pipe = <<>> /\ fr_closed = FALSE
    /\ fr_pc = "headers" /\ fr_headers = NoHeaders /\ fr_msgs = <<>>

FrameIdle ==
    /\ fr_stream = <<>> /\ fr_unwritten = <<>>
    /\ fr_pipe = <<>> /\ fr_closed = FALSE
    /\ fr_pc = "off" /\ fr_headers = NoHeaders /\ fr_msgs = <<>>

\* The server writes and flushes the next n bytes of its output.
ServerWrite ==
    /\ fr_pc # "off" /\ ~fr_closed
    /\ \E n \in 1..Len(fr_unwritten) :
          /\ fr_pipe' = fr_pipe \o SubSeq(fr_unwritten, 1, n)
          /\ fr_unwritten' = SubSeq(fr_unwritten, n + 1, Len(fr_unwritten))
    /\ UNCHANGED <<fr_closed, fr_pc, fr_headers, fr_msgs, fr_stream,
                   parseVars, validVars, clientVars, mainVars, reproVars,
                   dailyVars, cfgVars, pickVars, caseVars, latVars>>

\* The server has written everything and closes its stdout.
ServerClose ==
    /\ fr_pc # "off" /\ ~fr_closed /\ fr_unwritten = <<>>
    /\ fr_closed' = TRUE
    /\ UNCHANGED <<fr_unwritten, fr_pipe, fr_pc, fr_headers, fr_msgs, fr_stream,
                   parseVars, validVars, clientVars, mainVars, reproVars,
                   dailyVars, cfgVars, pickVars, caseVars, latVars>>

\* The place of the first line end in the pipe, 0 when there is none
FirstEol ==
    IF \E i \in 1..Len(fr_pipe) : fr_pipe[i].k = "eol"
    THEN CHOOSE i \in 1..Len(fr_pipe) :
            fr_pipe[i].k = "eol" /\ \A j \in 1..(i - 1) : fr_pipe[j].k # "eol"
    ELSE 0

\* headers after "k, v = line.split(':', 1); headers[k.strip().lower()] = v":
\* only a line that is the Content-Length text alone sets that key.
HeadersAfter(line) ==
    IF Len(line) = 2 /\ line[1].k = "content-length" THEN Some(line[1].n)
    ELSE fr_headers

\* line = stream.readline() and what the header loop does with it
ReadLine ==
    /\ fr_pc = "headers"
    /\ IF FirstEol # 0
       THEN /\ fr_pipe' = SubSeq(fr_pipe, FirstEol + 1, Len(fr_pipe))
            /\ IF FirstEol = 1
               THEN \* the blank line: the body follows when a length is known
                    /\ fr_pc' = IF fr_headers.some THEN "body" ELSE "headers"
                    /\ UNCHANGED fr_headers
               ELSE /\ fr_headers' = HeadersAfter(SubSeq(fr_pipe, 1, FirstEol))
                    /\ UNCHANGED fr_pc
       ELSE \* end of file: the rest is a last line, then readline() is empty
            /\ fr_closed
            /\ fr_pipe' = <<>>
            /\ fr_pc' = "ended"
            /\ UNCHANGED fr_headers
    /\ UNCHANGED <<fr_unwritten, fr_closed, fr_msgs, fr_stream,
                   parseVars, validVars, clientVars, mainVars, reproVars,
                   dailyVars, cfgVars, pickVars, caseVars, latVars>>

Min(a, b) == IF a <= b THEN a ELSE b

\* json.loads(body): a message when the bytes are one whole body
IsWholeBody(bytes) ==
    /\ Len(bytes) = BodyLen
    /\ \A i \in 1..Len(bytes) : bytes[i].k = "body" /\ bytes[i].id = bytes[1].id

\* The number of bytes one stream.read(length) returns: what the pipe holds,
\* up to length; -1 while it has to wait.
ReadSome(length) ==
    IF fr_pipe # <<>> \/ fr_closed THEN Min(length, Len(fr_pipe)) ELSE -1

\* body = stream.read(length); json.loads; the message goes to the routing
ReadBody ==
    /\ fr_pc = "body"
    /\ ReadSome(fr_headers.v) # -1
    /\ fr_pipe' = SubSeq(fr_pipe, ReadSome(fr_headers.v) + 1, Len(fr_pipe))
    /\ fr_headers' = NoHeaders
    /\ IF ReadSome(fr_headers.v) = 0
       THEN fr_pc' = "ended" /\ UNCHANGED fr_msgs
       ELSE /\ fr_pc' = "headers"
            /\ fr_msgs' =
                  IF IsWholeBody(SubSeq(fr_pipe, 1, ReadSome(fr_headers.v)))
                  THEN Append(fr_msgs, fr_pipe[1].id) ELSE fr_msgs
    /\ UNCHANGED <<fr_unwritten, fr_closed, fr_stream,
                   parseVars, validVars, clientVars, mainVars, reproVars,
                   dailyVars, cfgVars, pickVars, caseVars, latVars>>

FrameNext == ServerWrite \/ ServerClose \/ ReadLine \/ ReadBody

(***************************************************************************)
(* main(): the run loop, the aggregation, the summary.                     *)
(***************************************************************************)
MaxRuns == 2
TimeoutS == 10

\* The servers of this invocation, in the order main builds the list.
Servers == <<"pyrefly", "ty">>
ServerSet == {Servers[i] : i \in 1..Len(Servers)}

ValidUri == JStr(<<"file:", "/", "/", "/", "u", "/", "a">>)
ValidLocation == JDict([uri |-> ValidUri, range |-> GoodRange])
NegativeLocation ==
    JDict([uri |-> ValidUri,
           range |-> JDict([start |-> JDict([line |-> JInt(-1), character |-> JInt(0)]),
                            end |-> GoodPos])])

\* What a server does in one session, and how long its definition round trip takes.
Behaviour(kind, dt) == [kind |-> kind, dt |-> dt]
ServerBehaviours ==
    {Behaviour("spawn_failure", 0), Behaviour("initialize_timeout", 0),
     Behaviour("definition_timeout", TimeoutS), Behaviour("definition_error", 1),
     Behaviour("answers_null", 1), Behaviour("answers_valid", 1),
     Behaviour("answers_negative", 2)}

\* The outcome of self.request("textDocument/definition", ...) for a behaviour.
DefinitionRequestOutcome(b) ==
    CASE b.kind = "definition_timeout" -> Raise("TimeoutError")
      [] b.kind = "definition_error" -> Raise("LspProtocolError")
      [] b.kind = "answers_null" -> Val(Response(2, JNull))
      [] b.kind = "answers_negative" ->
            Val(Response(2, JList(<<NegativeLocation, NegativeLocation>>)))
      [] b.kind = "answers_valid" -> Val(Response(2, ValidLocation))

\* run_one_server: what the worker's future ends with.
run_one_server(b) ==
    CASE b.kind = "spawn_failure" -> Raise("FileNotFoundError")
      [] b.kind = "initialize_timeout" -> Raise("TimeoutError")
      [] OTHER -> definition(DefinitionRequestOutcome(b), b.dt)

Max(a, b) == IF a >= b THEN a ELSE b

\* runs = max(1, int(args.runs))
Runs == Max(1, args_runs)

EmptyBucket ==
    [ok |-> 0, found |-> 0, valid |-> 0, latencies_ms |-> <<>>, errors |-> 0,
     timeouts |-> 0]

NoCase == [file |-> 0, line |-> 0, character |-> 0, token |-> "", kind |-> ""]
NoPayload == [run |-> -1, picked |-> NoCase, results |-> <<>>, unresolved |-> <<>>]
\* executor.submit(run_server_task, name, cmd, case)
Submitted(c) == [st |-> "running", case |-> c]

MainInit ==
    /\ args_runs \in 0..MaxRuns
    /\ args_seed \in {Some(1)}
    \* --json is left out of invocations of at most one run
    /\ json_out \in BOOLEAN
    /\ json_out \/ args_runs <= 1
    /\ entropy = 0
    /\ tree \in Trees
    /\ rng = InitRng(args_seed, entropy)
    /\ m_pc = "loop"
    /\ run_idx = 0
    /\ case = NoCase
    /\ case_payload = NoPayload
    /\ futures = [s \in ServerSet |-> [st |-> "none"]]
    /\ handled = {}
    /\ agg = [s \in ServerSet |-> EmptyBucket]
    /\ report = [runs |-> Runs, cases |-> <<>>, summary |-> <<>>]
    /\ written = 0

MainIdle ==
    /\ args_runs = 0 /\ args_seed = None /\ entropy = 0 /\ tree = EmptyTree
    /\ json_out = FALSE
    /\ rng = 0
    /\ m_pc = "off"
    /\ run_idx = 0
    /\ case = NoCase
    /\ case_payload = NoPayload
    /\ futures = <<>>
    /\ handled = {}
    /\ agg = <<>>
    /\ report = [runs |-> 0, cases |-> <<>>, summary |-> <<>>]
    /\ written = 0

\* for run_idx in range(runs): pick the case, build the case record, submit
\* one task per server; an exception of pick_random_case leaves main.
PickAndSubmit ==
    /\ m_pc = "loop"
    /\ run_idx < Runs
    /\ LET p == pick_random_case(tree, rng) IN
       /\ rng' = p.rng
       /\ IF p.exc = "none"
          THEN /\ case' = p.v
               /\ case_payload' = [run |-> run_idx, picked |-> p.v,
                                   results |-> <<>>, unresolved |-> <<>>]
               /\ futures' = [s \in ServerSet |-> Submitted(p.v)]
               /\ handled' = {}
               /\ m_pc' = "collect"
          ELSE /\ m_pc' = "crashed"
               /\ UNCHANGED <<case, case_payload, futures, handled>>
    /\ UNCHANGED <<configVars, run_idx, agg, report, written,
                   parseVars, validVars, clientVars, reproVars, dailyVars, cfgVars, pickVars, caseVars, latVars, frameVars>>

\* The future of a task that ran to its end on the case it was given
Completed(f, out) == [st |-> "done", case |-> f.case, out |-> out]

\* A worker that counts its own failure in the aggregate of its server.
WorkerRunCountingErrors(s) ==
    /\ m_pc = "collect"
    /\ futures[s].st = "running"
    /\ \E b \in ServerBehaviours :
          /\ futures' = [futures EXCEPT ![s] = Completed(@, run_one_server(b))]
          /\ agg' = IF run_one_server(b).exc = "none" THEN agg
                    ELSE [agg EXCEPT ![s].errors = @ + 1]
    /\ UNCHANGED <<configVars, rng, m_pc, run_idx, case, case_payload, handled,
                   report, written, parseVars, validVars, clientVars, reproVars, dailyVars, cfgVars, pickVars, caseVars, latVars, frameVars>>

\* A worker thread runs run_server_task to its end.
WorkerRun(s) ==
    /\ m_pc = "collect"
    /\ futures[s].st = "running"
    /\ \E b \in ServerBehaviours :
          futures' = [futures EXCEPT ![s] = Completed(@, run_one_server(b))]
    /\ UNCHANGED <<configVars, rng, m_pc, run_idx, case, case_payload, handled,
                   agg, report, written, parseVars, validVars, clientVars, reproVars, dailyVars, cfgVars, pickVars, caseVars, latVars, frameVars>>

\* The repository root the validator is given.
RootPath == <<"/", "w">>

\* locations_payload: each location with its "valid" flag.
LocationsPayload(locs) ==
    [i \in 1..Len(locs) |->
        [uri |-> locs[i].uri, start |-> locs[i].range.start,
         end |-> locs[i].range.end,
         valid |-> _looks_like_valid_location(locs[i], RootPath).v]]

AnyValid(payload) == \E i \in 1..Len(payload) : payload[i].valid

ResultEntry(res, payload) ==
    [ok |-> res.ok, found |-> res.found, n_locations |-> res.n_locations,
     latency_ms |-> res.latency_ms, error |-> res.error, locations |-> payload]

ExceptionEntry(e) ==
    [ok |-> FALSE, found |-> FALSE, n_locations |-> 0, latency_ms |-> None,
     error |-> Some(e), locations |-> <<>>]

\* "if res.ok and res.latency_ms is not None": the result adds a latency sample.
AddsLatencyWhenMeasured(res) == res.latency_ms.some

AddsLatency(res) == res.ok /\ res.latency_ms.some

\* "if res.found": the result counts as found, by this much.
FoundIncrementPerLocation(res) == res.n_locations

FoundIncrement(res) == IF res.found THEN 1 ELSE 0

\* The bucket of a server after a result that future.result() returned.
UpdateBucket(b, res, any_valid) ==
    [b EXCEPT !.ok = IF res.ok THEN @ + 1 ELSE @,
              !.found = @ + FoundIncrement(res),
              !.valid = IF any_valid THEN @ + 1 ELSE @,
              !.latencies_ms = IF AddsLatency(res)
                               THEN Append(@, res.latency_ms.v) ELSE @]

Unresolved(reason) == [reason |-> reason]

\* An unresolved table that only notes the results without any location.
UpdateUnresolvedWhenEmpty(u, s, payload) ==
    IF payload = <<>> THEN (s :> Unresolved("no_definition_locations")) @@ u ELSE u

\* The unresolved table after a result that future.result() returned.
UpdateUnresolved(u, s, payload) ==
    IF payload = <<>> \/ ~AnyValid(payload)
    THEN (s :> Unresolved(IF payload = <<>> THEN "no_definition_locations"
                          ELSE "no_valid_file_location")) @@ u
    ELSE u

\* "except Exception" around future.result() and the bookkeeping
MainCatchesOnlyTimeouts(e) == e = "TimeoutError"

MainCatches(e) == e \in Exceptions

\* as_completed yields the future of server s: the try body, or the except
\* clause; an exception the clause does not catch leaves main.
HandleFuture(s) ==
    /\ m_pc = "collect"
    /\ futures[s].st = "done"
    /\ s \notin handled
    /\ handled' = handled \cup {s}
    /\ LET out == futures[s].out IN
       IF out.exc = "none"
       THEN LET payload == LocationsPayload(out.v.locations) IN
            /\ case_payload' =
                  [case_payload EXCEPT
                      !.results = (s :> ResultEntry(out.v, payload)) @@ @,
                      !.unresolved = UpdateUnresolved(@, s, payload)]
            /\ agg' = [agg EXCEPT ![s] = UpdateBucket(@, out.v, AnyValid(payload))]
            /\ UNCHANGED m_pc
       ELSE IF MainCatches(out.exc)
       THEN /\ agg' = [agg EXCEPT ![s].errors = @ + 1]
            /\ case_payload' =
                  [case_payload EXCEPT
                      !.results = (s :> ExceptionEntry(out.exc)) @@ @,
                      !.unresolved = (s :> Unresolved("server_exception")) @@ @]
            /\ UNCHANGED m_pc
       ELSE /\ m_pc' = "crashed"
            /\ UNCHANGED <<agg, case_payload>>
    /\ UNCHANGED <<configVars, rng, run_idx, case, futures, report, written,
                   parseVars, validVars, clientVars, reproVars, dailyVars, cfgVars, pickVars, caseVars, latVars, frameVars>>

\* The executor is left as soon as one future was handled.
AppendCaseAfterFirstResult ==
    /\ m_pc = "collect"
    /\ handled # {}
    /\ report' = [report EXCEPT !.cases = Append(@, case_payload)]
    /\ run_idx' = run_idx + 1
    /\ futures' = [s \in ServerSet |-> [st |-> "none"]]
    /\ handled' = {}
    /\ m_pc' = "loop"
    /\ UNCHANGED <<configVars, rng, case, case_payload, agg,
                   written, parseVars, validVars, clientVars, reproVars, dailyVars, cfgVars, pickVars, caseVars, latVars, frameVars>>

\* The executor is left when every future is done: report["cases"].append.
AppendCase ==
    /\ m_pc = "collect"
    /\ handled = ServerSet
    /\ report' = [report EXCEPT !.cases = Append(@, case_payload)]
    /\ run_idx' = run_idx + 1
    /\ futures' = [s \in ServerSet |-> [st |-> "none"]]
    /\ handled' = {}
    /\ m_pc' = "loop"
    /\ UNCHANGED <<configVars, rng, case, case_payload, agg,
                   written, parseVars, validVars, clientVars, reproVars, dailyVars, cfgVars, pickVars, caseVars, latVars, frameVars>>

\* _pct as the fraction num/den
_pct(n) == IF Runs # 0 THEN [num |-> 100 * n, den |-> Runs] ELSE [num |-> 0, den |-> 1]

\* sorted(lats)
RECURSIVE Sorted(_)
Insert(x, sq) ==
    LET k == Cardinality({i \in 1..Len(sq) : sq[i] <= x}) IN
    SubSeq(sq, 1, k) \o <<x>> \o SubSeq(sq, k + 1, Len(sq))
Sorted(sq) == IF sq = <<>> THEN <<>> ELSE Insert(Head(sq), Sorted(Tail(sq)))

RECURSIVE Sum(_)
Sum(sq) == IF sq = <<>> THEN 0 ELSE Head(sq) + Sum(Tail(sq))

\* The summary indexed into the samples in their order of arrival.
LatencySummaryUnsorted(lats) ==
    LET n == Len(lats)
    IN  [count |-> n,
         p50 |-> IF n > 0 THEN Some(lats[(n \div 2) + 1]) ELSE None,
         p95 |-> IF n > 0 THEN Some(lats[((n * 95) \div 100) + 1]) ELSE None,
         min |-> IF n > 0 THEN Some(lats[1]) ELSE None,
         max |-> IF n > 0 THEN Some(lats[n]) ELSE None,
         mean |-> IF n > 0 THEN Some([num |-> Sum(lats), den |-> n]) ELSE None]

LatencySummary(lats) ==
    LET lats_sorted == Sorted(lats)
        n == Len(lats)
    IN  [count |-> n,
         p50 |-> IF n > 0 THEN Some(lats_sorted[(n \div 2) + 1]) ELSE None,
         p95 |-> IF n > 0 THEN Some(lats_sorted[((n * 95) \div 100) + 1]) ELSE None,
         min |-> IF n > 0 THEN Some(lats_sorted[1]) ELSE None,
         max |-> IF n > 0 THEN Some(lats_sorted[n]) ELSE None,
         mean |-> IF n > 0 THEN Some([num |-> Sum(lats), den |-> n]) ELSE None]

SummaryOf(b) ==
    [ok |-> b.ok, ok_pct |-> _pct(b.ok),
     found |-> b.found, found_pct |-> _pct(b.found),
     valid |-> b.valid, valid_pct |-> _pct(b.valid),
     errors |-> b.errors,
     latency_ms |-> LatencySummary(b.latencies_ms)]

\* The latency samples of a server after up to MaxSamples ok results, in the
\* order the results arrived: latencies between 1 and LatSpread, and
\* possibly one slow answer.
MaxSamples == 22
LatSpread == 7
SampleLists ==
    {[i \in 1..n |-> IF i = slow THEN 2 * LatSpread ELSE ((a * i + b) % LatSpread) + 1] :
        n \in 0..MaxSamples, a \in 0..3, b \in 0..2, slow \in {0, 2}}

LatInit == l_lats \in SampleLists /\ l_out = Unset /\ l_pc = "call"

LatIdle == l_lats = <<>> /\ l_out = Unset /\ l_pc = "off"

\* The "latency_ms" entry of a server's summary
SummarizeLatencies ==
    /\ l_pc = "call"
    /\ l_out' = LatencySummary(l_lats)
    /\ l_pc' = "done"
    /\ UNCHANGED <<l_lats, parseVars, validVars, clientVars, mainVars,
                   reproVars, dailyVars, cfgVars, pickVars, caseVars, frameVars>>

\* After the last run: the summary of every server.
Summarize ==
    /\ m_pc = "loop"
    /\ run_idx >= Runs
    /\ report' = [report EXCEPT !.summary = [s \in ServerSet |-> SummaryOf(agg[s])]]
    /\ m_pc' = "write"
    /\ UNCHANGED <<configVars, rng, run_idx, case, case_payload, futures,
                   handled, agg, written, parseVars, validVars, clientVars, reproVars, dailyVars, cfgVars, pickVars, caseVars, latVars, frameVars>>

\* if args.json_out: args.json_out.write_text(json.dumps(report)); return 0
WriteReport ==
    /\ m_pc = "write"
    /\ written' = IF json_out THEN written + 1 ELSE written
    /\ m_pc' = "done"
    /\ UNCHANGED <<configVars, rng, run_idx, case, case_payload, futures,
                   handled, agg, report, parseVars, validVars, clientVars, reproVars, dailyVars, cfgVars, pickVars, caseVars, latVars, frameVars>>

MainNext ==
    \/ PickAndSubmit
    \/ \E s \in ServerSet : WorkerRun(s)
    \/ \E s \in ServerSet : HandleFuture(s)
    \/ AppendCase \/ Summarize \/ WriteReport

(***************************************************************************)
(* Two invocations of main() on the same tree with the same --seed.        *)
(***************************************************************************)
Invocations == {1, 2}
EntropyVals == {0, 5}
ServerOutcomes == {"ok", "timeout", "error"}

ReproInit ==
    /\ r_seed \in {None, Some(1), Some(2)}
    /\ r_tree \in {NormalTree, BarrenTree}
    /\ r_runs \in 1..MaxRuns
    /\ r_entropy \in [Invocations -> EntropyVals]
    /\ r_rng = [i \in Invocations |-> InitRng(r_seed, r_entropy[i])]
    /\ r_idx = [i \in Invocations |-> 0]
    /\ r_cases = [i \in Invocations |-> <<>>]
    /\ r_servers = [i \in Invocations |-> "none"]

ReproIdle ==
    /\ r_seed = None /\ r_tree = EmptyTree /\ r_runs = 0
    /\ r_entropy = <<>> /\ r_rng = <<>> /\ r_idx = <<>>
    /\ r_cases = <<>> /\ r_servers = <<>>

\* One iteration of the run loop of invocation i: the case is picked, the
\* servers do what they do, the case record is appended.  An exception of
\* pick_random_case ends the invocation.
ReproRun(i) ==
    /\ r_idx[i] < r_runs
    /\ r_servers[i] # "crashed"
    /\ LET p == pick_random_case(r_tree, r_rng[i]) IN
       /\ r_rng' = [r_rng EXCEPT ![i] = p.rng]
       /\ IF p.exc = "none"
          THEN /\ r_cases' = [r_cases EXCEPT ![i] = Append(@, p.v)]
               /\ r_idx' = [r_idx EXCEPT ![i] = @ + 1]
               /\ \E o \in ServerOutcomes : r_servers' = [r_servers EXCEPT ![i] = o]
          ELSE /\ r_servers' = [r_servers EXCEPT ![i] = "crashed"]
               /\ UNCHANGED <<r_cases, r_idx>>
    /\ UNCHANGED <<r_seed, r_tree, r_runs, r_entropy,
                   parseVars, validVars, clientVars, mainVars, dailyVars, cfgVars, pickVars, caseVars, latVars, frameVars>>

ReproNext == \E i \in Invocations : ReproRun(i)

(***************************************************************************)
(* The daily runner: parse_args.                                           *)
(***************************************************************************)
MaxArgs == 2

DEFAULT_TYPE_CHECKERS == <<"pyright", "pyrefly", "ty", "zuban">>

Arg(opt, val) == [opt |-> opt, val |-> val]

\* The option a command-line flag stands for, long or short form.
Dest(opt) ==
    CASE opt \in {"--packages", "-p"} -> "packages"
      [] opt \in {"--checkers", "-c"} -> "checkers"
      [] opt \in {"--runs", "-r"} -> "runs"
      [] opt \in {"--output", "-o"} -> "output"
      [] opt \in {"--seed", "-s"} -> "seed"
      [] OTHER -> "unrecognized"

\* The default of --runs
DefaultRuns == 100

Defaults ==
    [packages |-> None, checkers |-> DEFAULT_TYPE_CHECKERS, runs |-> DefaultRuns,
     output |-> None, seed |-> None]

\* type=int on an argument string
IntArg(v) == IF AllDigits(v) THEN Val(DigitsValue(v)) ELSE Raise("SystemExit")

\* One flag with its value applied to the namespace; a bad value or an
\* unrecognized flag makes argparse exit.
ApplyArg(ns, a) ==
    LET d == Dest(a.opt) IN
    CASE d = "packages" ->
            IF IntArg(a.val).exc = "none"
            THEN Val([ns EXCEPT !.packages = Some(IntArg(a.val).v)]) ELSE Raise("SystemExit")
      [] d = "runs" ->
            IF IntArg(a.val).exc = "none"
            THEN Val([ns EXCEPT !.runs = IntArg(a.val).v]) ELSE Raise("SystemExit")
      [] d = "seed" ->
            IF IntArg(a.val).exc = "none"
            THEN Val([ns EXCEPT !.seed = Some(IntArg(a.val).v)]) ELSE Raise("SystemExit")
      [] d = "output" -> Val([ns EXCEPT !.output = Some(a.val)])
      [] d = "checkers" -> Val([ns EXCEPT !.checkers = a.val])
      [] OTHER -> Raise("SystemExit")

RECURSIVE ApplyArgs(_, _)
ApplyArgs(ns, argv) ==
    IF argv = <<>> THEN Val(ns)
    ELSE IF ApplyArg(ns, Head(argv)).exc # "none" THEN Raise("SystemExit")
    ELSE ApplyArgs(ApplyArg(ns, Head(argv)).v, Tail(argv))

\* parse_args(argv)
parse_args(argv) == ApplyArgs(Defaults, argv)

ArgVals ==
    {Arg("--packages", <<"2", "0">>), Arg("-p", <<"3">>), Arg("--runs", <<"7">>),
     Arg("-r", <<"x">>), Arg("--seed", <<"4", "2">>), Arg("--output", <<"o", "u", "t">>),
     Arg("--checkers", <<"ty">>), Arg("--limit", <<"1">>)}

RECURSIVE ArgSeqs(_)
ArgSeqs(n) ==
    IF n = 0 THEN {<<>>}
    ELSE ArgSeqs(n - 1) \cup
         {Append(sq, a) : sq \in {q \in ArgSeqs(n - 1) : Len(q) = n - 1}, a \in ArgVals}

ArgsInit == a_argv \in ArgSeqs(MaxArgs) /\ a_out = Unset /\ a_pc = "call"
ArgsIdle == a_argv = <<>> /\ a_out = Unset /\ a_pc = "off"

ParseArgsCall ==
    /\ a_pc = "call"
    /\ a_out' = parse_args(a_argv)
    /\ a_pc' = "done"
    /\ UNCHANGED <<a_argv, runnerVars, parseVars, validVars, clientVars, mainVars,
                   reproVars, cfgVars, pickVars, caseVars, latVars, frameVars>>

(***************************************************************************)
(* The daily runner: run_benchmark_for_package, _run_checkers_together.    *)
(***************************************************************************)
MaxCheckers == 2

TYPE_CHECKER_COMMANDS ==
    [pyright |-> "pyright-langserver", pyrefly |-> "pyrefly", ty |-> "ty",
     zuban |-> "zubanls"]

\* The names a caller may pass: two known checkers and one unknown.
CheckerNames == {"pyright", "ty", "mypy"}

RECURSIVE CheckerSeqs(_)
CheckerSeqs(n) ==
    IF n = 0 THEN {<<>>}
    ELSE CheckerSeqs(n - 1) \cup
         {Append(sq, c) : sq \in {q \in CheckerSeqs(n - 1) : Len(q) = n - 1},
                          c \in CheckerNames}

\* find_type_checker_command: the command, or None when the checker is not
\* known or "which" does not find its executable.
find_type_checker_command(checker, installed) ==
    IF checker \notin DOMAIN TYPE_CHECKER_COMMANDS THEN None
    ELSE IF TYPE_CHECKER_COMMANDS[checker] \in installed
    THEN Some(TYPE_CHECKER_COMMANDS[checker])
    ELSE None

NotInstalled == [ok |-> FALSE, error |-> Some("Type checker not installed"), latency_ms |-> None]
Failed(e) == [ok |-> FALSE, error |-> Some(e), latency_ms |-> None]
Parsed(runs) == [ok |-> TRUE, error |-> None, latency_ms |-> Some("summary"), runs |-> runs]

\* f"--{checker}-cmd"
CmdOption(checker) ==
    CASE checker = "pyright" -> "--pyright-cmd"
      [] checker = "pyrefly" -> "--pyrefly-cmd"
      [] checker = "ty" -> "--ty-cmd"
      [] checker = "zuban" -> "--zuban-cmd"

\* The option list _run_checkers_together hands to the benchmark's main.
BuildArgs(checkers, seed) ==
    <<"--root", "--servers", "--runs", "--didopen-warmup-ms">>
    \o [i \in 1..Len(checkers) |-> CmdOption(checkers[i])]
    \o (IF \E i \in 1..Len(checkers) : checkers[i] = "pyright"
        THEN <<"--pyright-disable-indexing">> ELSE <<>>)
    \o (IF seed # None THEN <<"--seed">> ELSE <<>>)
    \o <<"--json">>

\* The options declared by the parser of lsp_benchmark.main
MainOptions ==
    {"--root", "--servers", "--pyrefly-cmd", "--ty-cmd", "--zuban-cmd",
     "--pyright-cmd", "--seed", "--runs", "--trace", "--timeout",
     "--settings-json", "--pyright-disable-indexing", "--json"}

\* ap.parse_args(argv) of lsp_benchmark.main on an option list
MainParses(args) == \A i \in 1..Len(args) : args[i] \in MainOptions

\* How an invocation of main that got past its parser ends.
MainEndings == {"returned", "RuntimeError", "SystemExit"}

SeqToSet(sq) == {sq[i] : i \in 1..Len(sq)}

DailyInit ==
    /\ d_pc = "find"
    /\ d_type_checkers \in {q \in CheckerSeqs(MaxCheckers) : q # <<>>}
    /\ d_installed \in SUBSET {"pyright-langserver", "ty"}
    /\ d_runs \in {1, 5}
    /\ d_seed \in {None, Some(1)}
    /\ d_idx = 1
    /\ d_available = <<>>
    /\ d_results = <<>>
    /\ d_runner = "unset"
    /\ d_args = <<>>
    /\ d_spawned = {}
    /\ d_ran = <<>>

DailyIdle ==
    /\ d_pc = "off" /\ d_type_checkers = <<>> /\ d_installed = {} /\ d_runs = 0
    /\ d_seed = None /\ d_idx = 1 /\ d_available = <<>> /\ d_results = <<>>
    /\ d_runner = "unset" /\ d_args = <<>> /\ d_spawned = {} /\ d_ran = <<>>

\* run_benchmark_for_package, the discovery loop: one checker.
FindChecker ==
    /\ d_pc = "find"
    /\ d_idx <= Len(d_type_checkers)
    /\ LET checker == d_type_checkers[d_idx]
           cmd == find_type_checker_command(checker, d_installed)
       IN  IF cmd = None
           THEN /\ d_results' = (checker :> NotInstalled) @@ d_results
                /\ UNCHANGED d_available
           ELSE /\ d_available' = Append(d_available, checker)
                /\ UNCHANGED d_results
    /\ d_idx' = d_idx + 1
    /\ UNCHANGED <<d_pc, d_type_checkers, d_installed, d_runs, d_seed, d_runner,
                   d_args, d_spawned, d_ran, argsVars, parseVars, validVars,
                   clientVars, mainVars, reproVars, cfgVars, pickVars, caseVars, latVars, frameVars>>

\* After the loop: return when nothing is available; else enter
\* _run_checkers_together, load the runner and build its option list.  A
\* runner that cannot be loaded is an Exception recorded for every checker.
EnterTogether ==
    /\ d_pc = "find"
    /\ d_idx > Len(d_type_checkers)
    /\ IF d_available = <<>>
       THEN d_pc' = "returned" /\ UNCHANGED <<d_runner, d_args, d_results>>
       ELSE \/ /\ d_runner' = "loaded"
               /\ d_args' = BuildArgs(d_available, d_seed)
               /\ d_pc' = "call"
               /\ UNCHANGED d_results
            \/ /\ d_runner' = "ImportError"
               /\ d_results' =
                     [c \in SeqToSet(d_available) |-> Failed("ImportError")] @@ d_results
               /\ d_pc' = "returned"
               /\ UNCHANGED d_args
    /\ UNCHANGED <<d_type_checkers, d_installed, d_runs, d_seed, d_idx,
                   d_available, d_spawned, d_ran, argsVars, parseVars, validVars,
                   clientVars, mainVars, reproVars, cfgVars, pickVars, caseVars, latVars, frameVars>>

\* The handler around benchmark_runner(args): "except Exception".
TogetherCatches(e) == e \in Exceptions

\* benchmark_runner(args) and what follows it in _run_checkers_together:
\* main's parser exits on an option it does not declare; an invocation that
\* gets past the parser runs every server for every run and writes the
\* report, or ends with an exception.
RunnerCall ==
    /\ d_pc = "call"
    /\ \E ending \in MainEndings :
          LET e == IF MainParses(d_args) THEN ending ELSE "SystemExit" IN
          /\ IF MainParses(d_args) /\ ending \in {"returned", "RuntimeError"}
             THEN /\ d_spawned' = SeqToSet(d_available)
                  /\ d_ran' = [c \in SeqToSet(d_available) |->
                                  IF ending = "returned" THEN d_runs ELSE 0]
             ELSE UNCHANGED <<d_spawned, d_ran>>
          /\ IF e = "returned"
             THEN /\ d_results' =
                        [c \in SeqToSet(d_available) |-> Parsed(d_runs)] @@ d_results
                  /\ d_pc' = "returned"
             ELSE IF TogetherCatches(e)
             THEN /\ d_results' =
                        [c \in SeqToSet(d_available) |-> Failed(e)] @@ d_results
                  /\ d_pc' = "returned"
             ELSE /\ d_pc' = "exit"
                  /\ UNCHANGED d_results
    /\ UNCHANGED <<d_type_checkers, d_installed, d_runs, d_seed, d_idx,
                   d_available, d_runner, d_args, argsVars, parseVars, validVars,
                   clientVars, mainVars, reproVars, cfgVars, pickVars, caseVars, latVars, frameVars>>

DailyNext == FindChecker \/ EnterTogether \/ RunnerCall

(***************************************************************************)
(* main(): settings, server selection, commands, and the first run.        *)
(***************************************************************************)
MaxServerTokens == 2

supported == {"pyrefly", "ty", "zuban", "pyright"}

\* s.strip().lower() on the pieces of --servers that occur
StripLower(tok) ==
    CASE tok \in {"", " "} -> ""
      [] tok \in {"ty", " TY "} -> "ty"
      [] tok = "pyrefly" -> "pyrefly"
      [] tok = "mypy" -> "mypy"

ServerTokens == {"", " ", "ty", " TY ", "pyrefly", "mypy"}

RECURSIVE TokenSeqs(_)
TokenSeqs(n) ==
    IF n = 0 THEN {<<>>}
    ELSE TokenSeqs(n - 1) \cup
         {Append(sq, t) : sq \in {q \in TokenSeqs(n - 1) : Len(q) = n - 1},
                          t \in ServerTokens}

\* str(args.servers).split(","): never empty, one piece for the empty string
ServersArgs == {None} \cup {Some(q) : q \in TokenSeqs(MaxServerTokens) \ {<<>>}}

\* A --*-cmd value: absent, blank, or a command
CmdVals == {None, Some(" "), Some("cmd")}

\* _provided(cmd), and the test of _need: not None and not blank
_provided(cmd) == cmd # None /\ cmd.v # " "

\* json.loads(args.settings_json) succeeds
SettingsVals == {None, Some("{}"), Some("{")}
ValidJson(text) == text = "{}"

NonBlank(tok) == StripLower(tok) # ""

\* [s.strip().lower() for s in ... if s.strip()]
Requested(tokens) ==
    LET kept == SelectSeq(tokens, NonBlank) IN
    [i \in 1..Len(kept) |-> StripLower(kept[i])]

\* Auto mode: every server whose command was provided, in the fixed order.
AutoRequested(cmd) ==
    (IF _provided(cmd["pyrefly"]) THEN <<"pyrefly">> ELSE <<>>)
    \o (IF _provided(cmd["ty"]) THEN <<"ty">> ELSE <<>>)

\* The servers list: the selected names in the fixed order pyrefly, ty.
ServersOf(requested) ==
    (IF "pyrefly" \in SeqToSet(requested) THEN <<"pyrefly">> ELSE <<>>)
    \o (IF "ty" \in SeqToSet(requested) THEN <<"ty">> ELSE <<>>)

CfgInit ==
    /\ cfg_servers_arg \in ServersArgs
    /\ cfg_cmd \in [{"pyrefly", "ty"} -> CmdVals]
    /\ cfg_settings_json \in SettingsVals
    /\ cfg_pc = "settings"
    /\ cfg_requested = <<>>
    /\ cfg_servers = <<>>
    /\ cfg_picked = 0
    /\ cfg_spawned = {}
    /\ cfg_exit = "none"

CfgIdle ==
    /\ cfg_servers_arg = None /\ cfg_cmd = <<>> /\ cfg_settings_json = None
    /\ cfg_pc = "off" /\ cfg_requested = <<>> /\ cfg_servers = <<>>
    /\ cfg_picked = 0 /\ cfg_spawned = {} /\ cfg_exit = "none"

\* settings_payload = json.loads(args.settings_json), or SystemExit
LoadSettings ==
    /\ cfg_pc = "settings"
    /\ IF cfg_settings_json # None /\ ~ValidJson(cfg_settings_json.v)
       THEN cfg_pc' = "exit" /\ cfg_exit' = "SystemExit"
       ELSE cfg_pc' = "select" /\ UNCHANGED cfg_exit
    /\ UNCHANGED <<cfgArgs, cfg_requested, cfg_servers, cfg_picked, cfg_spawned,
                   parseVars, validVars, clientVars, mainVars, reproVars, dailyVars, pickVars, caseVars, latVars, frameVars>>

\* requested: auto mode or --servers, with their two exits
SelectServers ==
    /\ cfg_pc = "select"
    /\ LET requested == IF cfg_servers_arg = None THEN AutoRequested(cfg_cmd)
                        ELSE Requested(cfg_servers_arg.v)
           unknown == SelectSeq(requested, LAMBDA x : x \notin supported)
       IN  /\ cfg_requested' = requested
           /\ IF \/ (cfg_servers_arg = None /\ requested = <<>>)
                 \/ (cfg_servers_arg # None /\ unknown # <<>>)
              THEN cfg_pc' = "exit" /\ cfg_exit' = "SystemExit"
              ELSE cfg_pc' = "commands" /\ UNCHANGED cfg_exit
    /\ UNCHANGED <<cfgArgs, cfg_servers, cfg_picked, cfg_spawned,
                   parseVars, validVars, clientVars, mainVars, reproVars, dailyVars, pickVars, caseVars, latVars, frameVars>>

\* servers: _need(name, cmd) for every requested server
NeedCommands ==
    /\ cfg_pc = "commands"
    /\ LET servers == ServersOf(cfg_requested) IN
       IF \E i \in 1..Len(servers) : ~_provided(cfg_cmd[servers[i]])
       THEN cfg_pc' = "exit" /\ cfg_exit' = "SystemExit" /\ UNCHANGED cfg_servers
       ELSE cfg_pc' = "run" /\ cfg_servers' = servers /\ UNCHANGED cfg_exit
    /\ UNCHANGED <<cfgArgs, cfg_requested, cfg_picked, cfg_spawned,
                   parseVars, validVars, clientVars, mainVars, reproVars, dailyVars, pickVars, caseVars, latVars, frameVars>>

\* The first run: the case is picked, then ThreadPoolExecutor(max_workers =
\* len(servers)) is built, which raises ValueError for 0 workers, and one
\* task per server is submitted.
FirstRun ==
    /\ cfg_pc = "run"
    /\ cfg_picked' = cfg_picked + 1
    /\ IF Len(cfg_servers) = 0
       THEN /\ cfg_pc' = "exit" /\ cfg_exit' = "ValueError"
            /\ UNCHANGED cfg_spawned
       ELSE /\ cfg_pc' = "running"
            /\ cfg_spawned' = SeqToSet(cfg_servers)
            /\ UNCHANGED cfg_exit
    /\ UNCHANGED <<cfgArgs, cfg_requested, cfg_servers,
                   parseVars, validVars, clientVars, mainVars, reproVars, dailyVars, pickVars, caseVars, latVars, frameVars>>

CfgNext == LoadSettings \/ SelectServers \/ NeedCommands \/ FirstRun

(***************************************************************************)
(* Properties of the normalizer and of the validator.                      *)
(***************************************************************************)
ItemsOf(raw) ==
    IF raw.t = "null" THEN <<>> ELSE IF raw.t = "list" THEN raw.l ELSE <<raw>>

IsNumeral(s) ==
    \/ AllDigits(s)
    \/ Len(s) > 1 /\ s[1] \in {"-", "+"} /\ AllDigits(Tail(s))

\* A coordinate the normalizer can read as an integer.
IsCoord(c) == c.t \in {"int", "bool", "float"} \/ (c.t = "str" /\ IsNumeral(c.s))

IsPosition(p) ==
    /\ p.t = "dict"
    /\ {"line", "character"} \subseteq DOMAIN p.d
    /\ IsCoord(p.d["line"]) /\ IsCoord(p.d["character"])

IsRange(r) ==
    /\ r.t = "dict"
    /\ {"start", "end"} \subseteq DOMAIN r.d
    /\ IsPosition(r.d["start"]) /\ IsPosition(r.d["end"])

HasLinkFields(o) == {"targetUri", "targetRange"} \subseteq DOMAIN o.d

IsLocationLink(o) ==
    o.t = "dict" /\ HasLinkFields(o) /\ IsRange(o.d["targetRange"])

IsLocation(o) ==
    /\ o.t = "dict" /\ ~HasLinkFields(o)
    /\ {"uri", "range"} \subseteq DOMAIN o.d /\ IsRange(o.d["range"])

\* An item with every required field of its shape.
WellFormedItem(o) == IsLocationLink(o) \/ IsLocation(o)

UriOfItem(o) == IF IsLocationLink(o) THEN o.d["targetUri"] ELSE o.d["uri"]
RangeOfItem(o) == IF IsLocationLink(o) THEN o.d["targetRange"] ELSE o.d["range"]

\* C9: _parse_definition_result never raises, and returns one location per
\* well-formed item of the raw result (a lone item counts as a list of one),
\* in the order of the input; null and the empty list give the empty list.
C9_NormalizerKeepsWellFormed ==
    parse_pc = "done" =>
        LET wf == SelectSeq(ItemsOf(raw_result), WellFormedItem) IN
        /\ parse_out.exc = "none"
        /\ Len(parse_out.v) = Len(wf)
        /\ \A j \in 1..Len(wf) :
              /\ parse_out.v[j].uri = PyStr(UriOfItem(wf[j]))
              /\ parse_out.v[j].range.start.line
                    = PyInt(RangeOfItem(wf[j]).d["start"].d["line"]).v
        /\ (raw_result = JNull \/ raw_result = JList(<<>>)) => parse_out.v = <<>>

\* A list of a malformed item followed by a well-formed LocationLink was parsed.
C9_Witness ==
    /\ parse_pc = "done"
    /\ raw_result.t = "list" /\ Len(raw_result.l) = 2
    /\ ~WellFormedItem(raw_result.l[1])
    /\ IsLocationLink(raw_result.l[2])
    /\ Len(parse_out.v) = 1

UriResolves(uri) == PathResolve(_uri_to_path(uri)).exc = "none"
UnderRoot(uri, root) ==
    UriResolves(uri) /\ StartsWith(PathResolve(_uri_to_path(uri)).v, root)

\* C10: _looks_like_valid_location answers true exactly when the URI resolves
\* to a path and start.line, start.character, end.line and end.character are
\* all >= 0, whatever the benchmarked root is.
C10_ValidIffResolvesAndNonNegative ==
    v_pc = "done" =>
        /\ v_out.exc = "none"
        /\ v_out.v = (/\ UriResolves(v_loc.uri)
                      /\ v_loc.range.start.line >= 0
                      /\ v_loc.range.start.character >= 0
                      /\ v_loc.range.end.line >= 0
                      /\ v_loc.range.end.character >= 0)

\* A location outside the benchmarked root was judged valid.
C10_Witness ==
    /\ v_pc = "done"
    /\ v_out = Val(TRUE)
    /\ ~UnderRoot(v_loc.uri, v_root)

(***************************************************************************)
(* Properties of the LspClient session.                                    *)
(***************************************************************************)
\* The caller is inside request(): between registering the id and leaving.
InRequest == c_pc \in {"req_wait", "req_finally"}

C1_Correlation ==
    /\ \A r \in returned : r.msg.id = Some(r.req_id)
    /\ \A k \in 1..Len(waiters) : \A j \in 1..Len(waiters[k]) :
          waiters[k][j].id = Some(k)
    /\ c_pc \in {"req_finally", "req_ret"} /\ req_out.exc = "none"
          => req_out.v.id = Some(c_req_id)

\* A step of the reader that consumes a message without an id appends it to
\* the notification queue.
C1_NotificationStep ==
    (/\ rx_pc = "read" /\ stdout_pipe # <<>>
     /\ stdout_pipe' = Tail(stdout_pipe)
     /\ ~Head(stdout_pipe).id.some)
    => rx_queue' = Append(rx_queue, Head(stdout_pipe))

\* C1: whatever the interleaving of the caller and the reader, a message that
\* request() takes from its wait-channel or hands back carries the id this call
\* registered; a message without an id is never put on a wait-channel, the
\* reader puts it on the notification queue.
C1_RequestResponseCorrelation == []C1_Correlation /\ [][C1_NotificationStep]_vars

\* A request returned its response after the reader had queued a notification.
C1_Witness ==
    /\ \E r \in returned : r.msg.id = Some(r.req_id)
    /\ \E j \in 1..Len(rx_queue) : ~rx_queue[j].id.some

DefinitionDone == def_req # Unset \/ (c_op = "textDocument/definition" /\ c_pc = "stop")

\* C2: definition() lets no failure out: once it has been left, the worker
\* holds a DefinitionResult and no exception, whatever the request did; after a
\* failed request (error response, timeout, failed send) the result has
\* ok = false, found = false, n_locations = 0, no locations and an error message.
C2_DefinitionNeverRaises ==
    DefinitionDone =>
        /\ c_exc = "none"
        /\ def_result.some
        /\ def_req.exc # "none" =>
              /\ ~def_result.v.ok /\ ~def_result.v.found
              /\ def_result.v.n_locations = 0
              /\ def_result.v.locations = <<>>
              /\ def_result.v.error.some
        /\ def_req.exc = "none" =>
              /\ def_result.v.ok
              /\ def_result.v.found = (def_result.v.n_locations > 0)

\* definition() was left after the server answered with a JSON-RPC error.
C2_Witness ==
    /\ DefinitionDone
    /\ def_req = Raise("LspProtocolError")
    /\ def_result.some /\ ~def_result.v.ok

\* C4 as claimed: outside request() the pending table is empty, and inside it
\* holds at most the id being waited on.
C4_PendingOnlyWhileWaiting ==
    /\ ~InRequest => pending = {}
    /\ InRequest => pending \subseteq {c_req_id}

\* A step of the caller inside a stop() that found no process.
StopOnStopped == c_pc = "stop" /\ proc = "none" /\ c_pc' # c_pc

C11_StopStep ==
    StopOnStopped =>
        /\ c_pc' = "done"
        /\ UNCHANGED <<fieldVars, serverVars, c_req_id, req_out, worker_out>>

C11_StoppedClient ==
    /\ (c_pc = "done" /\ worker_out # Raise("FileNotFoundError")) =>
          proc = "none" /\ shutdown_flag /\ srv = "dead"
    /\ (c_pc = "stop" /\ extra_stops > 0) => proc = "none"

\* C11: once a started client has been stopped, or when the client was
\* never started, the client has no process, and a stop() that finds no
\* process returns at once: it sends nothing, signals no process and leaves
\* every field of the client as it was.
C11_StopIdempotent == []C11_StoppedClient /\ [][C11_StopStep]_vars

C11_Witness ==
    /\ c_pc = "done" /\ extra_stops = 1
    /\ shutdown_flag
    /\ \E i \in 1..Len(sent) : sent[i].method = "exit"

(***************************************************************************)
(* Properties of main's run loop.                                          *)
(***************************************************************************)
\* The case records written so far, the one in progress included.
\* The places of a method in the messages the client has written
SentAt(method) == {i \in 1..Len(sent) : sent[i].method = method}

Before(m1, m2) == \A j \in SentAt(m2) : \E i \in SentAt(m1) : i < j

AtMostOnce(method) == Cardinality(SentAt(method)) <= 1

\* C18: in a session the initialize request is sent first and its response
\* awaited, initialized follows, didChangeConfiguration comes only after
\* initialized, didOpen is sent once and before the definition request, and
\* one definition request is sent (none when the write itself fails), never
\* a second one after a timeout or an error.
C18_MessageOrdering ==
    /\ sent # <<>> => sent[1].method = "initialize"
    /\ AtMostOnce("initialize")
    /\ AtMostOnce("initialized")
    /\ \A j \in SentAt("initialized") :
          /\ j = 2
          /\ \E r \in returned : Some(r.req_id) = sent[1].id
    /\ Before("initialized", "workspace/didChangeConfiguration")
    /\ SentAt("workspace/didChangeConfiguration") # {} => use_settings
    /\ Before("initialized", "textDocument/didOpen")
    /\ AtMostOnce("textDocument/didOpen")
    /\ Before("textDocument/didOpen", "textDocument/definition")
    /\ AtMostOnce("textDocument/definition")
    /\ def_req # Unset => Cardinality(SentAt("textDocument/didOpen")) = 1
    /\ def_req # Unset /\ def_req.exc \in {"none", "TimeoutError", "LspProtocolError"} =>
          Cardinality(SentAt("textDocument/definition")) = 1

\* A session ended after its definition request timed out, with that one
\* definition request sent.
C18_Witness ==
    /\ c_pc = "done"
    /\ def_req = Raise("TimeoutError")
    /\ Cardinality(SentAt("textDocument/definition")) = 1
    /\ Cardinality(SentAt("textDocument/didOpen")) = 1

C23_State ==
    /\ c_pc \in {"notify_exit", "terminate"} => proc = "running"
    /\ c_pc = "notify_exit" => c_op = "shutdown" /\ req_out # Unset
    /\ c_pc = "terminate" => shutdown_flag
    /\ \A j \in SentAt("exit") : \A i \in SentAt("shutdown") : i < j
    /\ AtMostOnce("shutdown") /\ AtMostOnce("exit")
    /\ (c_pc = "done" /\ srv # "absent") =>
          proc = "none" /\ srv = "dead" /\ shutdown_flag
    /\ proc_end # "none" => srv = "dead" /\ proc = "none"

C23_Step ==
    /\ (~shutdown_flag /\ shutdown_flag') => c_pc = "notify_exit" /\ c_pc' = "terminate"
    /\ (proc = "running" /\ proc' = "none") =>
          /\ c_pc = "terminate" /\ shutdown_flag
          /\ srv' = "dead"
          /\ srv = "alive" => proc_end' \in {"terminate", "kill"}
    /\ (c_pc = "req_ret" /\ c_op = "shutdown") => c_pc' \in {c_pc, "notify_exit"}
    /\ c_pc = "notify_exit" => c_pc' \in {c_pc, "terminate"}
    /\ c_pc = "terminate" => c_pc' \in {c_pc, "done"}

\* C23: stop() on a started client attempts the shutdown request, then the
\* exit notification, then terminates the process; a failed or timed-out
\* shutdown or exit does not keep it from terminating; a process that does
\* not exit within the grace period is killed; when stop() returns the
\* client owns no process.
C23_ShutdownSequence == []C23_State /\ [][C23_Step]_vars

\* stop() returned after its shutdown request timed out, its exit
\* notification was written, and the process had to be killed.
C23_Witness ==
    /\ c_pc = "done" /\ proc = "none" /\ proc_end = "kill"
    /\ c_op = "shutdown" /\ req_out = Raise("TimeoutError")
    /\ SentAt("exit") # {}

Records ==
    IF m_pc \in {"collect"} \/ (m_pc = "crashed" /\ handled # {})
    THEN Append(report.cases, case_payload) ELSE report.cases

\* C3: whatever a server does in a run, main stays in the run loop: every
\* server whose future was collected has its entry in the run's case
\* record, every appended case record has an entry for every server, the
\* summary is written only after all runs, and main is only ever left early
\* by the case sampler, never by a server's outcome.
C3_FailureIsolation ==
    /\ m_pc = "crashed" => handled = {}
    /\ m_pc = "collect" => DOMAIN case_payload.results = handled
    /\ \A k \in 1..Len(report.cases) :
          /\ DOMAIN report.cases[k].results = ServerSet
          /\ report.cases[k].run = k - 1
    /\ m_pc \in {"loop", "collect"} => Len(report.cases) = run_idx
    /\ m_pc \in {"write", "done"} =>
          /\ Len(report.cases) = Runs
          /\ DOMAIN report.summary = ServerSet

C3_Witness ==
    /\ m_pc = "done"
    /\ Runs = 2
    /\ report.cases[1].results["pyrefly"].error = Some("FileNotFoundError")
    /\ report.cases[1].results["ty"].ok
    /\ report.cases[2].results["pyrefly"].error = Some("TimeoutError")
    /\ report.cases[2].results["ty"].error = Some("LspProtocolError")

\* The number of records in which server s has a results entry with ok = TRUE.
OkEntries(s) ==
    Cardinality({k \in 1..Len(Records) :
                    /\ s \in DOMAIN Records[k].results
                    /\ Records[k].results[s].ok})

\* A step in which server s gets its results entry of the run.
EntryWritten(s) == s \notin handled /\ s \in handled' /\ m_pc' = "collect"

C5_SampleStep ==
    \A s \in ServerSet :
        /\ EntryWritten(s) =>
              IF case_payload'.results[s].ok
              THEN agg'[s].latencies_ms =
                      Append(agg[s].latencies_ms, case_payload'.results[s].latency_ms.v)
              ELSE agg'[s].latencies_ms = agg[s].latencies_ms
        /\ (~EntryWritten(s) /\ m_pc # "off") => agg'[s].latencies_ms = agg[s].latencies_ms

C5_CountIsOk ==
    /\ m_pc \notin {"off"} =>
          \A s \in ServerSet :
              /\ Len(agg[s].latencies_ms) = OkEntries(s)
              /\ Len(agg[s].latencies_ms) = agg[s].ok
    /\ m_pc = "done" =>
          \A s \in ServerSet :
              report.summary[s].latency_ms.count = report.summary[s].ok

\* C5: a run adds a latency sample to a server's list if and only if the
\* server's result of the run has ok = TRUE, so the list is as long as the
\* server's ok count, and the summary's latency_ms.count equals its ok.
C5_LatencyIffOk == []C5_CountIsOk /\ [][C5_SampleStep]_vars

C5_Witness ==
    /\ m_pc = "done"
    /\ Runs = 2
    /\ report.cases[1].results["ty"].ok
    /\ report.cases[2].results["ty"].error = Some("TimeoutError")
    /\ report.cases[2].results["ty"].latency_ms = Some(TimeoutS)
    /\ report.summary["ty"].latency_ms.count = 1

\* Server s timed out in every run: each of its results entries carries the
\* timeout as its error.
TimedOutInEveryRun(s) ==
    \A k \in 1..Len(report.cases) :
        report.cases[k].results[s].error = Some("TimeoutError")

\* C6 as claimed: a server that timed out in every one of the runs has
\* latency_ms.count = 0 and errors = runs in the summary.
C6_AlwaysTimingOutCountsAsErrors ==
    m_pc = "done" =>
        \A s \in ServerSet :
            TimedOutInEveryRun(s) =>
                /\ report.summary[s].latency_ms.count = 0
                /\ report.summary[s].errors = Runs

\* What the code does for such a server: no latency sample, and one error
\* for each run in which the timeout was raised out of the session (the
\* results entry then has no latency); a timed-out definition request is
\* returned as a result and counts nowhere.
RaisedTimeouts(s) ==
    Cardinality({k \in 1..Len(report.cases) :
                    /\ report.cases[k].results[s].error = Some("TimeoutError")
                    /\ ~report.cases[k].results[s].latency_ms.some})

C6_Observed ==
    m_pc = "done" =>
        \A s \in ServerSet :
            TimedOutInEveryRun(s) =>
                /\ report.summary[s].latency_ms.count = 0
                /\ report.summary[s].errors = RaisedTimeouts(s)

C6_Witness ==
    /\ m_pc = "done"
    /\ Runs = 2
    /\ TimedOutInEveryRun("pyrefly")
    /\ \A k \in 1..2 : report.cases[k].results["pyrefly"].latency_ms = Some(TimeoutS)
    /\ report.summary["pyrefly"].errors = 0

InPercentRange(p) == p.den > 0 /\ 0 <= p.num /\ p.num <= 100 * p.den

\* C7: for every server, ok, found and valid never exceed the number of
\* runs, and the summary's percentage of each is 100 * count / runs, which
\* lies between 0 and 100.
C7_CountsAndPercentages ==
    /\ m_pc \notin {"off"} =>
          \A s \in ServerSet :
              /\ agg[s].ok \in 0..Runs
              /\ agg[s].found \in 0..Runs
              /\ agg[s].valid \in 0..Runs
    /\ m_pc \in {"write", "done"} =>
          \A s \in ServerSet :
              LET sm == report.summary[s] IN
              /\ sm.ok = agg[s].ok /\ sm.found = agg[s].found /\ sm.valid = agg[s].valid
              /\ sm.ok_pct = [num |-> 100 * sm.ok, den |-> Runs]
              /\ sm.found_pct = [num |-> 100 * sm.found, den |-> Runs]
              /\ sm.valid_pct = [num |-> 100 * sm.valid, den |-> Runs]
              /\ InPercentRange(sm.ok_pct)
              /\ InPercentRange(sm.found_pct)
              /\ InPercentRange(sm.valid_pct)

C7_Witness ==
    /\ m_pc = "done"
    /\ Runs = 2
    /\ report.summary["ty"].found = 2
    /\ report.summary["ty"].found_pct = [num |-> 200, den |-> 2]
    /\ report.summary["ty"].valid = 1
    /\ report.summary["ty"].ok_pct.num = 200
    /\ report.cases[1].results["ty"].n_locations = 2

(***************************************************************************)
(* Properties of the case sampler across invocations.                      *)
(***************************************************************************)
Finished(i) == r_idx[i] = r_runs \/ r_servers[i] = "crashed"

MinLen(a, b) == IF Len(a) <= Len(b) THEN Len(a) ELSE Len(b)

InitParse == ParseInit /\ ValidIdle /\ ClientIdle /\ MainIdle /\ ReproIdle /\ ArgsIdle /\ DailyIdle /\ CfgIdle /\ PickIdle /\ CaseIdle /\ LatIdle /\ FrameIdle
SpecParse == InitParse /\ [][ParseCall]_vars

InitValid == ValidInit /\ ParseIdle /\ ClientIdle /\ MainIdle /\ ReproIdle /\ ArgsIdle /\ DailyIdle /\ CfgIdle /\ PickIdle /\ CaseIdle /\ LatIdle /\ FrameIdle
SpecValid == InitValid /\ [][ValidCall]_vars

InitClient == ClientInit /\ ParseIdle /\ ValidIdle /\ MainIdle /\ ReproIdle /\ ArgsIdle /\ DailyIdle /\ CfgIdle /\ PickIdle /\ CaseIdle /\ LatIdle /\ FrameIdle
SpecClient == InitClient /\ [][ClientNext]_vars

InitMain == MainInit /\ ParseIdle /\ ValidIdle /\ ClientIdle /\ ReproIdle /\ ArgsIdle /\ DailyIdle /\ CfgIdle /\ PickIdle /\ CaseIdle /\ LatIdle /\ FrameIdle
SpecMain == InitMain /\ [][MainNext]_vars

InitRepro == ReproInit /\ ParseIdle /\ ValidIdle /\ ClientIdle /\ MainIdle /\ ArgsIdle /\ DailyIdle /\ CfgIdle /\ PickIdle /\ CaseIdle /\ LatIdle /\ FrameIdle
SpecRepro == InitRepro /\ [][ReproNext]_vars

(***************************************************************************)
(* Properties of the daily runner.                                         *)
(***************************************************************************)
\* The phases of an invocation and the steps between them: the loop head
\* (Idle before the first run), a run in progress, the summary computed, the
\* return.
C17_Phases ==
    <<m_pc, m_pc'>> \in
        {<<"loop", "collect">>, <<"collect", "collect">>, <<"collect", "loop">>,
         <<"loop", "write">>, <<"write", "done">>, <<"loop", "crashed">>}

C17_Records ==
    /\ \A k \in 1..Len(report.cases) :
          /\ report.cases[k].run = k - 1
          /\ DOMAIN report.cases[k].results = ServerSet
    /\ m_pc \in {"loop", "collect", "crashed"} =>
          /\ Len(report.cases) = run_idx /\ run_idx <= Runs
          /\ report.summary = <<>> /\ written = 0
    /\ m_pc = "collect" => run_idx < Runs /\ case_payload.run = run_idx
    /\ m_pc = "write" =>
          /\ Len(report.cases) = Runs
          /\ DOMAIN report.summary = ServerSet /\ written = 0

C17_Step ==
    /\ C17_Phases
    /\ report'.cases # report.cases =>
          /\ handled = ServerSet
          /\ report'.cases = Append(report.cases, case_payload)
    /\ (m_pc = "loop" /\ m_pc' = "collect") =>
          /\ Len(report.cases) = run_idx
          /\ case_payload'.run = run_idx /\ case_payload'.results = <<>>
    /\ report'.summary # report.summary => Len(report.cases) = Runs
    /\ written' # written =>
          /\ DOMAIN report.summary = ServerSet
          /\ report' = report
          /\ written = 0 /\ written' = 1

\* C17 (as stated): an invocation goes Idle -> RunCase x N -> Summarizing ->
\* Done, appends one case record per run with run indices 0..N-1 in order,
\* starts a run only after every server's outcome of the run before is
\* recorded, computes the summary after the last run, and serializes the
\* report exactly once, after the summary.
C17_SerializedExactlyOnce ==
    /\ [](C17_Records /\ (m_pc = "done" =>
              Len(report.cases) = Runs /\ DOMAIN report.summary = ServerSet /\ written = 1))
    /\ [][C17_Step]_vars

\* C17 (amended): the same, with the report serialized at most once, after
\* the summary: exactly once when --json names a file, never otherwise.
C17_Orchestration ==
    /\ [](C17_Records /\ (m_pc = "done" =>
              /\ Len(report.cases) = Runs /\ DOMAIN report.summary = ServerSet
              /\ written = IF json_out THEN 1 ELSE 0))
    /\ [][C17_Step]_vars

\* An invocation of two runs or more that returned with its report written.
C17_Witness == m_pc = "done" /\ Runs >= 2 /\ Len(report.cases) = Runs /\ written = 1

\* The step of the worker of server s: its task goes from running to done.
WorkerStep(s) == futures[s].st = "running" /\ futures'[s].st = "done"

\* The steps of the coordinating thread: submitting, handling a completed
\* future, leaving the executor, summarizing, writing.
CoordinatorStep == m_pc' # m_pc \/ handled' # handled

C19_WorkerWrites(s) ==
    /\ agg' = agg /\ case_payload' = case_payload /\ report' = report
    /\ case' = case
    /\ futures'[s].case = futures[s].case
    /\ \A t \in ServerSet \ {s} : futures'[t] = futures[t]
    /\ ~CoordinatorStep

\* C19: during a run the aggregate buckets, the case record and the report
\* are written by the coordinating thread only; a worker hands back a result
\* of its own and writes nothing else; the workers of a run are given the
\* same BenchmarkCase and none modifies it.
C19_Ownership ==
    /\ [](m_pc = "collect" =>
            \A s \in ServerSet :
               futures[s].st \in {"running", "done"} /\ futures[s].case = case)
    /\ [][/\ \A s \in ServerSet : WorkerStep(s) => C19_WorkerWrites(s)
          /\ (agg' # agg \/ case_payload' # case_payload \/ report' # report) =>
                CoordinatorStep
          /\ m_pc = "collect" => case' = case]_vars

\* Both workers of a run are done, with different outcomes, on the one case,
\* and nothing of their results is recorded yet.
C19_Witness ==
    /\ m_pc = "collect" /\ handled = {}
    /\ \A s \in ServerSet : futures[s].st = "done" /\ futures[s].case = case
    /\ \E s, t \in ServerSet : futures[s].out # futures[t].out
    /\ case_payload.results = <<>>

\* The reason main owes the outcome of a worker: none when a location is valid
ReasonOwed(out) ==
    IF out.exc # "none" THEN "server_exception"
    ELSE IF out.v.locations = <<>> THEN "no_definition_locations"
    ELSE IF ~AnyValid(LocationsPayload(out.v.locations)) THEN "no_valid_file_location"
    ELSE "none"

C21_Tagged(s) ==
    LET out == futures[s].out IN
    /\ s \in DOMAIN case_payload.unresolved <=> ReasonOwed(out) # "none"
    /\ s \in DOMAIN case_payload.unresolved =>
          case_payload.unresolved[s].reason = ReasonOwed(out)
    /\ s \in DOMAIN case_payload.results
    /\ out.exc = "none" => case_payload.results[s].locations = LocationsPayload(out.v.locations)

\* The handling of a result with ok = true and found = false
C21_EmptySuccess(s) ==
    (/\ s \notin handled /\ s \in handled'
     /\ futures[s].out.exc = "none"
     /\ futures[s].out.v.ok /\ ~futures[s].out.v.found) =>
        /\ m_pc' = "collect"
        /\ agg'[s].ok = agg[s].ok + 1
        /\ agg'[s].found = agg[s].found /\ agg'[s].valid = agg[s].valid
        /\ agg'[s].errors = agg[s].errors
        /\ case_payload'.unresolved[s].reason = "no_definition_locations"

Unresolvable(c) == find_type_checker_command(c, d_installed) = None

DailyOver == d_pc \in {"returned", "exit"}

\* C12 as claimed: when run_benchmark_for_package is over, every checker
\* whose command does not resolve is in the returned metrics with ok = FALSE,
\* an error message and no latency, and no process was spawned for it; and
\* every other checker was run by the benchmark for every run.
C12_UnavailableSkippedOthersRun ==
    (/\ DailyOver /\ d_runner # "ImportError"
     /\ \E j \in 1..Len(d_type_checkers) : Unresolvable(d_type_checkers[j])) =>
        \A i \in 1..Len(d_type_checkers) :
            LET c == d_type_checkers[i] IN
            IF Unresolvable(c)
            THEN /\ d_pc = "returned"
                 /\ c \in DOMAIN d_results
                 /\ ~d_results[c].ok
                 /\ d_results[c].error # None
                 /\ d_results[c].latency_ms = None
                 /\ c \notin d_spawned
            ELSE /\ c \in DOMAIN d_ran
                 /\ d_ran[c] = d_runs

\* One checker is not installed, the other is, and the package run is over.
C12_Witness ==
    /\ d_pc = "exit"
    /\ d_type_checkers = <<"pyright", "ty">>
    /\ d_installed = {"ty"}
    /\ d_results = ("pyright" :> NotInstalled)
    /\ d_spawned = {}

\* C30: the option list built for the benchmark's main holds only options
\* that main's parser declares; whatever the invocation does, the package's
\* run is not left by an exit, and once it has returned every available
\* checker has a metrics entry.
C30_LibraryInvocation ==
    /\ d_pc # "exit"
    /\ d_pc = "call" => \A i \in 1..Len(d_args) : d_args[i] \in MainOptions
    /\ d_pc = "returned" =>
          \A i \in 1..Len(d_available) : d_available[i] \in DOMAIN d_results

\* Every requested checker was available, the option list held an option
\* main does not declare, and the run was left without any metrics entry.
C30_Witness ==
    /\ d_pc = "exit"
    /\ d_available = d_type_checkers /\ Len(d_available) = MaxCheckers
    /\ \E i \in 1..Len(d_args) : d_args[i] = "--didopen-warmup-ms"
    /\ d_results = <<>>

\* C20 as claimed: parse_args with no arguments yields packages = 10,
\* runs = 5, output = None and seed = None.
C20_DefaultArguments ==
    (a_pc = "done" /\ a_argv = <<>>) =>
        /\ a_out.exc = "none"
        /\ a_out.v.packages = Some(10)
        /\ a_out.v.runs = 5
        /\ a_out.v.output = None
        /\ a_out.v.seed = None

C20_Witness ==
    /\ a_pc = "done" /\ a_argv = <<>>
    /\ a_out = Val(Defaults)
    /\ a_out.v.packages = None
    /\ a_out.v.runs = 100

(***************************************************************************)
(* Properties of main's startup.                                           *)
(***************************************************************************)
Selected ==
    IF cfg_servers_arg = None THEN SeqToSet(AutoRequested(cfg_cmd))
    ELSE {StripLower(cfg_servers_arg.v[i]) : i \in 1..Len(cfg_servers_arg.v)} \ {""}

NoServerSelected == Selected = {}
UnknownServer == \E n \in Selected : n \notin supported
MissingCommand == \E n \in Selected \cap {"pyrefly", "ty"} : ~_provided(cfg_cmd[n])
InvalidSettings == cfg_settings_json # None /\ ~ValidJson(cfg_settings_json.v)

ConfigurationError ==
    NoServerSelected \/ UnknownServer \/ MissingCommand \/ InvalidSettings

\* C13 as claimed: with a configuration error the invocation ends at
\* startup with SystemExit; no case is ever picked and no server spawned.
C13_ConfigErrorsFatalAtStartup ==
    (cfg_pc # "off" /\ ConfigurationError) =>
        /\ cfg_picked = 0
        /\ cfg_spawned = {}
        /\ cfg_pc \notin {"run", "running"}
        /\ cfg_pc = "exit" => cfg_exit = "SystemExit"

\* --servers names no server: a case was picked before the invocation failed.
C13_Witness ==
    /\ cfg_servers_arg = Some(<<"", " ">>)
    /\ cfg_pc = "exit" /\ cfg_exit = "ValueError"
    /\ cfg_picked = 1
    /\ cfg_spawned = {}

IdleProgram == ParseIdle /\ ValidIdle /\ ClientIdle /\ MainIdle /\ ReproIdle

InitArgs == ArgsInit /\ DailyIdle /\ IdleProgram /\ CfgIdle /\ PickIdle /\ CaseIdle /\ LatIdle /\ FrameIdle
SpecArgs == InitArgs /\ [][ParseArgsCall]_vars

InitDaily == DailyInit /\ ArgsIdle /\ IdleProgram /\ CfgIdle /\ PickIdle /\ CaseIdle /\ LatIdle /\ FrameIdle
SpecDaily == InitDaily /\ [][DailyNext]_vars

InitCfg == CfgInit /\ ArgsIdle /\ DailyIdle /\ IdleProgram /\ PickIdle /\ CaseIdle /\ LatIdle /\ FrameIdle
SpecCfg == InitCfg /\ [][CfgNext]_vars

\* The identifier of the line that the 0-based column col lies in, if any
IdentifierAt(line, col) ==
    LET starts == {i \in MatchStarts(line) : i <= col /\ col < RunEnd(line, i)} IN
    IF starts = {} THEN None ELSE Some(Match(line, CHOOSE i \in starts : TRUE).text)

PickReturned == p_pc = "done" /\ p_out.exc = "none"

CaseLine == SourceFiles[p_file].lines[p_out.v.line + 1]

\* C14: the token of a returned case is never one of the excluded names, and
\* the position of the case never points at an excluded identifier, on the
\* syntax-tree path (column re-location included) and on the regex fallback.
C14_NeverExcluded ==
    PickReturned =>
        /\ ~IsBanned(p_out.v.token)
        /\ IdentifierAt(CaseLine, p_out.v.character) = None
           \/ ~IsBanned(IdentifierAt(CaseLine, p_out.v.character).v)

\* A case came out of the syntax-tree path with its position inside an
\* excluded identifier.
C14_Witness ==
    /\ PickReturned
    /\ p_out.v.kind # "regex"
    /\ IdentifierAt(CaseLine, p_out.v.character) # None
    /\ IsBanned(IdentifierAt(CaseLine, p_out.v.character).v)

SeqRange(seq) == {seq[i] : i \in 1..Len(seq)}

HasPreferred(f) == \E c \in SeqRange(SourceTree[f]) : IsPreferred(c)

CasesDrawn(f) ==
    {pick_random_identifier_case(SourceTree, f, s).v : s \in RngStates}

\* C15: when the candidates of the file hold an imported_name, imported_attr,
\* imported_call or imported_attr_call, the returned case has one of these
\* kinds; otherwise the case is drawn from all the candidates.
C15_SelectionPolicy ==
    PickReturned =>
        /\ \E c \in SeqRange(SourceTree[p_file]) : p_out.v = BenchmarkCase(p_file, c)
        /\ HasPreferred(p_file) => p_out.v.kind \in preferred_kinds
        /\ ~HasPreferred(p_file) =>
              CasesDrawn(p_file) =
                {BenchmarkCase(p_file, c) : c \in SeqRange(SourceTree[p_file])}

\* A case of an imported kind came out of a file that also has a candidate of
\* another kind.
C15_Witness ==
    /\ PickReturned
    /\ p_out.v.kind \in preferred_kinds
    /\ \E c \in SeqRange(SourceTree[p_file]) : ~IsPreferred(c)

InitPick == PickInit /\ ArgsIdle /\ DailyIdle /\ CfgIdle /\ IdleProgram /\ CaseIdle /\ LatIdle /\ FrameIdle
SpecPick == InitPick /\ [][PickIdentifierCase]_vars

\* The rng state after n attempts on files without candidates: each costs
\* the one draw that chose the file.
RECURSIVE RngAfter(_, _)
RngFrom(s, n) == IF s \in RngStates THEN RngAfter(s, n) ELSE s

RngAfter(s, n) ==
    IF n = 0 THEN s
    ELSE IF n = 1 THEN pick_random_python_file(k_tree, s).rng
    ELSE RngFrom(RngAfter(s, n \div 2), n - (n \div 2))

RngBefore(i) == RngAfter(k_rng, i - 1)

Barren(f) == k_tree[f] = <<>>

\* C16: pick_random_case ends after at most 50 file attempts; every attempt
\* is a fresh random choice of a file; it returns the case of the first
\* attempted file with a usable occurrence; when all 50 attempts fail it
\* raises; a tree without files fails with the no-.py-files error.
C16_BoundedAttempts ==
    k_pc = "done" =>
        /\ Len(k_out.tried) <= 50
        /\ \A i \in 1..Len(k_out.tried) :
              k_out.tried[i] = pick_random_python_file(k_tree, RngBefore(i)).v
        /\ \A i \in 1..(Len(k_out.tried) - 1) : Barren(k_out.tried[i])
        /\ k_out.exc = "none" =>
              /\ k_out.tried # <<>>
              /\ ~Barren(k_out.tried[Len(k_out.tried)])
              /\ k_out.v.file = k_out.tried[Len(k_out.tried)]
        /\ k_out.exc # "none" /\ k_tree # <<>> =>
              /\ k_out.exc = "RuntimeError" /\ k_out.msg = "exhausted"
              /\ Len(k_out.tried) = 50
              /\ Barren(k_out.tried[50])
        /\ k_tree = <<>> =>
              /\ k_out.exc = "RuntimeError" /\ k_out.msg = "no_py_files"
              /\ k_out.tried = <<>>

\* A case came out after a file without candidates was attempted first.
C16_Witness ==
    /\ k_pc = "done"
    /\ k_out.exc = "none"
    /\ Len(k_out.tried) >= 2

\* All 50 attempts failed.
C16_Exhausted == k_pc = "done" /\ k_out.exc # "none" /\ Len(k_out.tried) = 50

\* x is the element at 0-based index k of the samples in ascending order.
IsKthSmallest(x, lats, k) ==
    /\ \E i \in 1..Len(lats) : lats[i] = x
    /\ Cardinality({i \in 1..Len(lats) : lats[i] < x}) <= k
    /\ Cardinality({i \in 1..Len(lats) : lats[i] <= x}) > k

\* C22: with n >= 1 samples p50 is the element at index floor(n * 0.50) and
\* p95 the element at index floor(n * 0.95) of the sorted samples, both
\* indices lie in 0..n-1 and min <= p50 <= p95 <= max; with no sample p50,
\* p95, min, max and mean are null and count is 0.
C22_Percentiles ==
    l_pc = "done" =>
        LET n == Len(l_lats) IN
        /\ l_out.count = n
        /\ n = 0 => /\ l_out.p50 = None /\ l_out.p95 = None /\ l_out.min = None
                    /\ l_out.max = None /\ l_out.mean = None
        /\ n >= 1 =>
              /\ (n \div 2) \in 0..(n - 1)
              /\ ((95 * n) \div 100) \in 0..(n - 1)
              /\ l_out.p50.some /\ IsKthSmallest(l_out.p50.v, l_lats, n \div 2)
              /\ l_out.p95.some /\ IsKthSmallest(l_out.p95.v, l_lats, (95 * n) \div 100)
              /\ l_out.min.some /\ IsKthSmallest(l_out.min.v, l_lats, 0)
              /\ l_out.max.some /\ IsKthSmallest(l_out.max.v, l_lats, n - 1)
              /\ l_out.min.v <= l_out.p50.v /\ l_out.p50.v <= l_out.p95.v
              /\ l_out.p95.v <= l_out.max.v
              /\ l_out.mean.some

\* A summary of more than 20 unsorted samples whose p95 is below its max and
\* above its p50.
C22_Witness ==
    /\ l_pc = "done" /\ Len(l_lats) > 20
    /\ l_out.p50.v < l_out.p95.v /\ l_out.p95.v < l_out.max.v
    /\ \E i \in 1..(Len(l_lats) - 1) : l_lats[i] > l_lats[i + 1]

\* A step that ends the stdout reader.
ReaderEnds == rx_pc # "dead" /\ rx_pc' = "dead"

\* The stdout reader ends only at the end of the server's output.
C25_ReaderStep ==
    ReaderEnds => rx_pc = "read" /\ stdout_pipe = <<>> /\ srv = "dead"

\* C25: whatever the interleaving of a request() that times out and
\* deregisters its id with the reader routing a message with that id, the
\* reader does not terminate: it ends only when the server's output is at its
\* end, so a later response still finds a reader to deliver it.
C25_ReaderSurvivesTimeout == [][C25_ReaderStep]_vars

\* The reader has ended while the server lives; a later request waits, and
\* its response sits unread in the pipe.
C25_Witness ==
    /\ rx_pc = "dead" /\ srv = "alive"
    /\ c_pc = "req_wait" /\ c_req_id > 1
    /\ \E j \in 1..Len(stdout_pipe) :
          stdout_pipe[j] \in {Response(c_req_id, r) : r \in ResultVals}

\* request() takes the next id, and ids only grow.
C26_IdStep ==
    /\ next_id' \in {next_id, next_id + 1}
    /\ c_req_id' # c_req_id => c_req_id' = next_id /\ next_id' = next_id + 1

\* The reader, having routed a message to a wait-channel, goes back to reading.
C26_ReaderStep ==
    (rx_pc \in {"lookup", "put"} /\ rx_pc' # rx_pc) => rx_pc' \in {"read", "put"}

\* The reader is not blocked on the wait-channel of a request that has left.
C26_ReaderNotStuck == rx_pc = "put" => rx_key \in pending

\* C26: request ids strictly increase and are never reused; a message on the
\* wait-channel of request k carries id k, so a late response never reaches
\* the waiter of a later request; and routing a response never stops the
\* reader or blocks it for good: it goes on to read the next frame.
C26_LateResponses ==
    /\ [][C26_IdStep /\ C26_ReaderStep]_vars
    /\ [](C26_ReaderNotStuck /\
          \A k \in 1..Len(waiters) : \A j \in 1..Len(waiters[k]) :
              waiters[k][j].id = Some(k))

\* The reader is blocked on the full wait-channel of a request that timed out.
C26_Witness ==
    /\ rx_pc = "put" /\ rx_key \notin pending /\ srv = "alive"
    /\ c_req_id > rx_key

\* C27: a message that has both a method and an id (a request of the server)
\* is never put on a wait-channel nor handed back by request(), whatever its
\* id; a definition reported ok = true was answered by a message without a
\* method.
C27_OnlyResponsesAnswer ==
    /\ \A k \in 1..Len(waiters) : \A j \in 1..Len(waiters[k]) :
          ~waiters[k][j].method
    /\ \A r \in returned : ~r.msg.method
    /\ (def_result.some /\ def_result.v.ok) => ~def_req.v.method

\* definition() reported ok = true, with no location, on a request of the
\* server that carried the id of the definition request.
C27_Witness ==
    /\ def_result.some /\ def_result.v.ok /\ ~def_result.v.found
    /\ def_req.exc = "none" /\ def_req.v = ServerRequest(c_req_id)
    /\ c_op = "textDocument/definition"

\* found => ok, and found <=> n_locations > 0
C28_ResultShape(res) ==
    /\ res.found => res.ok
    /\ res.found <=> res.n_locations > 0

\* The results of server s that the coordinator has handled: those of the
\* completed runs and, inside a run, the one of this run.
C28_Handled(s) == run_idx + (IF s \in handled THEN 1 ELSE 0)

\* C28: every DefinitionResult a worker returns, and every result entry of a
\* case, has found => ok and found <=> n_locations > 0; for every server, at
\* every point of the run, valid <= found <= ok and ok + errors is at most the
\* number of its results handled so far, which between runs is the number of
\* runs completed.
C28_CounterInvariant ==
    m_pc # "off" =>
        \A s \in ServerSet :
            /\ (futures[s].st = "done" /\ futures[s].out.exc = "none") =>
                  C28_ResultShape(futures[s].out.v)
            /\ s \in DOMAIN case_payload.results =>
                  C28_ResultShape(case_payload.results[s])
            /\ agg[s].valid <= agg[s].found
            /\ agg[s].found <= agg[s].ok
            /\ agg[s].ok + agg[s].errors <= C28_Handled(s)
            /\ m_pc # "collect" => agg[s].ok + agg[s].errors <= run_idx

\* After two runs a server has ok = 2, found = 1 and valid = 0, another one
\* ok = 1 and errors = 1.
C28_Witness ==
    /\ m_pc = "done" /\ run_idx = 2
    /\ \E s, t \in ServerSet :
          /\ agg[s].ok = 2 /\ agg[s].found = 1 /\ agg[s].valid = 0
          /\ agg[t].ok = 1 /\ agg[t].errors = 1

\* The definition request of the session is being made or waited for.
DefinitionInFlight ==
    /\ c_op = "textDocument/definition"
    /\ c_pc \in {"req_send", "req_wait", "req_finally", "req_ret"}

\* The worker returns: out of a start() that created no process, or out of
\* stop(), which leaves the client without a process and the process ended.
C29_ReturnStep ==
    (c_pc # "done" /\ c_pc' = "done") =>
        \/ c_pc = "start" /\ proc' = "none" /\ srv' = "absent"
        \/ c_pc \in {"stop", "terminate"} /\ proc' = "none" /\ srv' # "alive"

C29_State ==
    /\ c_pc = "done" => proc = "none" /\ srv # "alive" /\ worker_out # Unset
    /\ DefinitionInFlight =>
          /\ proc_end = "none" /\ ~shutdown_flag /\ proc = "running"
          /\ SentAt("shutdown") = {}
          /\ SentAt("exit") = {}
    /\ (proc_end # "none" /\ SentAt("textDocument/definition") # {}) =>
          def_req # Unset

\* C29: whichever way the session ends (definition returned, initialize
\* raised or timed out, a notification failed, reading the case file failed)
\* the worker returns only out of stop(), with the client owning no process
\* and the process ended; and the client ends the process only after the
\* definition request of the session, if one was sent, has returned or timed
\* out.
C29_ProcessLifecycle == []C29_State /\ [][C29_ReturnStep]_vars

\* The worker returned after stop() killed a server whose definition request
\* had timed out.
C29_Witness ==
    /\ c_pc = "done" /\ extra_stops = 0
    /\ def_req = Raise("TimeoutError")
    /\ proc_end = "kill" /\ proc = "none"

\* The worker returned after the case file could not be read.
C29_ReadFailed ==
    /\ c_pc = "done" /\ extra_stops = 0
    /\ worker_out = Raise("OSError") /\ proc_end # "none"

\* C24: every frame that announces Content-Length: N is parsed from exactly
\* the N bytes after the blank line, also when the pipe delivers the body in
\* several chunks, so that the reader stays aligned on the next header; a
\* header block without Content-Length gives no message and does not stop the
\* reader.
C24_FramesParsed ==
    /\ \E n \in 0..Len(MessagesOf(fr_stream)) :
          fr_msgs = SubSeq(MessagesOf(fr_stream), 1, n)
    /\ fr_pc = "ended" => fr_msgs = MessagesOf(fr_stream)

\* The reader parsed every message of a stream that has a header block
\* without Content-Length, the body of a frame having come in two chunks.
C24_Witness ==
    /\ fr_pc = "ended"
    /\ fr_msgs = MessagesOf(fr_stream) /\ Len(fr_msgs) = 2
    /\ \E i \in 1..Len(fr_stream) : fr_stream[i].k = "other"

InitFrame ==
    FrameInit /\ ArgsIdle /\ DailyIdle /\ CfgIdle /\ IdleProgram /\ PickIdle /\ CaseIdle /\ LatIdle
SpecFrame == InitFrame /\ [][FrameNext]_vars

InitLat == LatInit /\ ArgsIdle /\ DailyIdle /\ CfgIdle /\ IdleProgram /\ PickIdle /\ CaseIdle /\ FrameIdle
SpecLat == InitLat /\ [][SummarizeLatencies]_vars

InitCase == CaseInit /\ ArgsIdle /\ DailyIdle /\ CfgIdle /\ IdleProgram /\ PickIdle /\ LatIdle /\ FrameIdle
SpecCase == InitCase /\ [][PickCase]_vars

====
